---------------------------- MODULE Spec2Model ----------------------------
(***************************************************************************)
(* A model of cherry.hpp: packed RGBA pixels and the blend functions, the  *)
(* Canvas view over a caller-owned buffer, and the drawing routines that   *)
(* are written in terms of Canvas::BlendPixel.                             *)
(*                                                                         *)
(* A pixel is the 32-bit word of the source, kept as its two 16-bit        *)
(* halves <<lo, hi>> (lo = red + 256*green, hi = blue + 256*alpha) so that *)
(* every number stays inside TLC's integers.                               *)
(***************************************************************************)
EXTENDS Integers, Sequences, FiniteSets, TLC

VARIABLES
    strict,   \* TRUE iff the build defines CHERRY_CHECK_BOUNDS
    buf,      \* the caller-owned pixel buffer, indexed from 0
    canvas,   \* the Canvas constructed over buf (or NoCanvas)
    sub,      \* a second Canvas, made by SubCanvas (or NoCanvas)
    rect,     \* the sorted corners sub was made from
    pc,       \* position of the calling program: "ready" or "done"
    call,     \* the last call: its name and arguments
    status,   \* how the last call ended
    ret,      \* the pixel the last call returned (or NoPixel)
    log,      \* coordinates the last call blended, in order
    pre,      \* buf as it was when the last call began
    fg,       \* foreground argument of a blend function
    bg,       \* background argument of a blend function
    src,      \* the source Canvas of a transform (or NoCanvas)
    twin,     \* the same program in the build without CHERRY_CHECK_BOUNDS
    threads,  \* the threads that fill one band of rows each
    pool,     \* the buffer pool: its free and its borrowed blocks
    guards    \* the live blend mode guards of canvas, innermost last, with
              \* the mode canvas was built with and the calls made so far

vars ==
    <<strict, buf, canvas, sub, rect, pc, call, status, ret, log, pre, fg, bg,
      src, twin, threads, pool, guards>>

-----------------------------------------------------------------------------
(* Bounds of the model *)

\* alpha samples are taken within EdgeWidth of 0, 128 and 255
EdgeWidth == 1
\* largest canvas width and height that Init constructs
MaxWidth == 2
MaxHeight == 2
\* the canvas that single lines are drawn on
LineWidth == 4
LineHeight == 3
\* the larger destination canvas of a transform
CopyWidth == 4
CopyHeight == 4
\* longest sequence of calls that the two builds make side by side
MaxCalls == 2
\* rows of the canvas that is filled in bands
ParHeight == 3
\* most threads that fill one canvas
Workers == 2
\* largest number of pixels asked of the pool in one request
MaxBlock == 2
\* longest sequence of calls made on the pool
PoolCalls == 5
\* how far outside the canvas a far vertex lies
Far == 7
\* rows outside the canvas that a loop gone astray is followed through
RowsBeyond == 2
\* deepest nesting of BlendModeGuards, and the calls a guarded program makes
MaxGuards == 2
MaxGuardCalls == 4
\* longest vertex list given to Polygon
MaxVertices == 2

-----------------------------------------------------------------------------
(* Pixels *)

Byte == 256

Fault == <<-1, -1>>
NoPixel == <<-2, -2>>
NoCanvas == [off |-> 0, Width |-> 0, Height |-> 0, Stride |-> 0, mode |-> "none"]

\* a pool that owns no block
NoPool == [free |-> << >>, used |-> << >>, owned |-> 0]

\* no BlendModeGuard is alive, and no canvas of the guarded program is built
NoGuards == [live |-> << >>, original |-> "none", calls |-> 0]

\* no second run of the program
NoTwin ==
    [buf |-> << >>, sub |-> NoCanvas, status |-> "none", ret |-> NoPixel,
     log |-> << >>, n |-> 0]

CombineRGBA(red, green, blue, alpha) ==
    << (red % Byte) + Byte * (green % Byte), (blue % Byte) + Byte * (alpha % Byte) >>

DeconstructRGBA(pixel) ==
    << pixel[1] % Byte, (pixel[1] \div Byte) % Byte,
       pixel[2] % Byte, (pixel[2] \div Byte) % Byte >>

Alpha(pixel) == DeconstructRGBA(pixel)[4]

\* what a build makes of the integer division n / 0
DivZeroOutcomes == {"trap", "zero"}

\* the value a of AlphaBlend
OutAlpha(foreground, background) ==
    LET f == DeconstructRGBA(foreground)
        b == DeconstructRGBA(background)
    IN  f[4] + (b[4] * (255 - f[4])) \div 255

\* the numerator of channel i in AlphaBlend
ChannelSum(foreground, background, i) ==
    LET f == DeconstructRGBA(foreground)
        b == DeconstructRGBA(background)
    IN  f[i] * f[4] + (b[i] * b[4] * (255 - f[4])) \div 255

AlphaBlend(foreground, background, dz) ==
    LET a == OutAlpha(foreground, background)
        Q(i) == ChannelSum(foreground, background, i) \div a
    IN  IF a = 0
        THEN IF dz = "trap" THEN Fault ELSE CombineRGBA(0, 0, 0, a)
        ELSE CombineRGBA(Q(1), Q(2), Q(3), a)

-----------------------------------------------------------------------------
\* FastAlphaBlend works on the word's lanes: with X = alpha*fgR + inv*bgR and
\* Y = alpha*fgB + inv*bgB the red+blue product is X + 65536*Y, and X < 65536
\* (alpha + inv = 257), so no carry crosses a lane and each lane is shifted
\* and masked on its own.  The alpha lane is set to 0xFF.
\* a FastAlphaBlend that keeps the background's alpha lane
FastAlphaBlend_KeepsAlpha(foreground, background) ==
    LET f == DeconstructRGBA(foreground)
        b == DeconstructRGBA(background)
        Lane(i) == (((f[4] + 1) * f[i] + (256 - f[4]) * b[i]) \div Byte) % Byte
    IN  IF f[4] = 0
        THEN background
        ELSE CombineRGBA(Lane(1), Lane(2), Lane(3), b[4])

\* a FastAlphaBlend without the early return for a transparent foreground
FastAlphaBlend_NoShortcut(foreground, background) ==
    LET f == DeconstructRGBA(foreground)
        b == DeconstructRGBA(background)
        Lane(i) == (((f[4] + 1) * f[i] + (256 - f[4]) * b[i]) \div Byte) % Byte
    IN  CombineRGBA(Lane(1), Lane(2), Lane(3), 255)

FastAlphaBlend(foreground, background) ==
    LET f == DeconstructRGBA(foreground)
        b == DeconstructRGBA(background)
        fg_a == f[4]
        alpha == fg_a + 1
        inv_alpha == 256 - fg_a
        Lane(i) == ((alpha * f[i] + inv_alpha * b[i]) \div Byte) % Byte
    IN  IF fg_a = 0
        THEN background
        ELSE CombineRGBA(Lane(1), Lane(2), Lane(3), 255)

BlendModes == {"OVERWRITE", "ALPHA_COMPOSITING", "FAST_ALPHA_COMPOSITING"}

-----------------------------------------------------------------------------
(* Canvas *)

Abs(n) == IF n < 0 THEN -n ELSE n
Min(a, b) == IF a < b THEN a ELSE b
Max(a, b) == IF a < b THEN b ELSE a

\* colours the calling program draws with
Transparent == CombineRGBA(0, 0, 0, 0)
HalfRed == CombineRGBA(255, 0, 0, 128)
Palette == {Transparent, HalfRed}

\* what a build makes of an access outside the buffer: a crash, or a read of
\* some word (a write then lands outside the buffer)
UBOutcomes == {Fault} \cup Palette

\* a constructor that checks the sign of each argument but not stride
\* against width
Construct_SignsOnly(off, width, height, stride, mode) ==
    IF strict /\ (width < 0 \/ height < 0 \/ stride < 0)
    THEN [status |-> "ConstructionError", cv |-> NoCanvas]
    ELSE [status |-> "ok",
          cv |-> [off |-> off, Width |-> width, Height |-> height,
                  Stride |-> stride, mode |-> mode]]

\* the Canvas constructor; off is the distance of data from the buffer's start
Construct(off, width, height, stride, mode) ==
    IF strict /\ (width < 0 \/ height < 0 \/ stride < 0 \/ stride < width)
    THEN [status |-> "ConstructionError", cv |-> NoCanvas]
    ELSE [status |-> "ok",
          cv |-> [off |-> off, Width |-> width, Height |-> height,
                  Stride |-> stride, mode |-> mode]]

\* a bounds test that lets x = Width and y = Height through
IsWithinBounds_Inclusive(c, x, y) == x >= 0 /\ y >= 0 /\ x <= c.Width /\ y <= c.Height

IsWithinBounds(c, x, y) == x >= 0 /\ y >= 0 /\ x < c.Width /\ y < c.Height

\* TRUE iff CheckBounds returns without throwing
CheckBounds(c, x, y) == (~strict) \/ IsWithinBounds(c, x, y)

\* the position of Data[Stride * y + x] in the buffer
Index(c, x, y) == c.off + c.Stride * y + x

\* a SortTopLeft that orders the x coordinates only
SortTopLeft_XOnly(x0, y0, x1, y1) == << Min(x0, x1), y0, Max(x0, x1), y1 >>

SortTopLeft(x0, y0, x1, y1) ==
    << Min(x0, x1), Min(y0, y1), Max(x0, x1), Max(y0, y1) >>

\* a view whose rows are as long as the view is wide
SubCanvas_PackedRows(c, a0, b0, a1, b1) ==
    LET s == SortTopLeft(a0, b0, a1, b1)
    IN  IF ~CheckBounds(c, s[1], s[2]) \/ ~CheckBounds(c, s[3] - 1, s[4] - 1)
        THEN [status |-> "OutOfBounds", cv |-> NoCanvas]
        ELSE Construct(c.off + c.Stride * s[2] + s[1], s[3] - s[1], s[4] - s[2],
                       s[3] - s[1], c.mode)

SubCanvas(c, a0, b0, a1, b1) ==
    LET s == SortTopLeft(a0, b0, a1, b1)
        x0 == s[1]
        y0 == s[2]
        x1 == s[3]
        y1 == s[4]
    IN  IF ~CheckBounds(c, x0, y0) \/ ~CheckBounds(c, x1 - 1, y1 - 1)
        THEN [status |-> "OutOfBounds", cv |-> NoCanvas]
        ELSE Construct(c.off + c.Stride * y0 + x0, x1 - x0, y1 - y0, c.Stride, c.mode)

Pixel(c, b, x, y, ub) ==
    IF ~CheckBounds(c, x, y)
    THEN [status |-> "OutOfBounds", ret |-> NoPixel]
    ELSE IF Index(c, x, y) \in DOMAIN b
         THEN [status |-> "ok", ret |-> b[Index(c, x, y)]]
         ELSE IF ub = Fault
              THEN [status |-> "fault", ret |-> NoPixel]
              ELSE [status |-> "ok", ret |-> ub]

OverwritePixel(c, b, x, y, pixel, ub) ==
    IF ~CheckBounds(c, x, y)
    THEN [status |-> "OutOfBounds", buf |-> b]
    ELSE IF Index(c, x, y) \in DOMAIN b
         THEN [status |-> "ok", buf |-> [b EXCEPT ![Index(c, x, y)] = pixel]]
         ELSE IF ub = Fault
              THEN [status |-> "fault", buf |-> b]
              ELSE [status |-> "ok", buf |-> b]

\* BlendAlpha and BlendFastAlpha: read the pixel, blend, store
BlendThenStore(c, b, x, y, pixel, dz, ub) ==
    LET r == Pixel(c, b, x, y, ub)
        v == IF c.mode = "ALPHA_COMPOSITING"
             THEN AlphaBlend(pixel, r.ret, dz)
             ELSE FastAlphaBlend(pixel, r.ret)
    IN  IF r.status # "ok"
        THEN [status |-> r.status, buf |-> b]
        ELSE IF v = Fault
             THEN [status |-> "fault", buf |-> b]
             ELSE OverwritePixel(c, b, x, y, v, ub)

\* a BlendPixel that blends whatever the mode is
BlendPixel_AlwaysBlends(c, b, x, y, pixel, dz, ub) ==
    IF ~CheckBounds(c, x, y)
    THEN [status |-> "OutOfBounds", buf |-> b]
    ELSE BlendThenStore(c, b, x, y, pixel, dz, ub)

\* a BlendPixel that skips the coordinates outside the canvas
BlendPixel_Clips(c, b, x, y, pixel, dz, ub) ==
    IF ~IsWithinBounds(c, x, y)
    THEN [status |-> "ok", buf |-> b]
    ELSE IF c.mode = "OVERWRITE"
         THEN OverwritePixel(c, b, x, y, pixel, ub)
         ELSE BlendThenStore(c, b, x, y, pixel, dz, ub)

BlendPixel(c, b, x, y, pixel, dz, ub) ==
    IF ~CheckBounds(c, x, y)
    THEN [status |-> "OutOfBounds", buf |-> b]
    ELSE IF c.mode = "OVERWRITE"
         THEN OverwritePixel(c, b, x, y, pixel, ub)
         ELSE BlendThenStore(c, b, x, y, pixel, dz, ub)

\* BlendPixel at each point of pts in order, until one of them fails
RECURSIVE BlendEach(_, _, _, _, _, _, _)
BlendEach(c, b, pts, done, pixel, dz, ub) ==
    IF pts = << >>
    THEN [status |-> "ok", buf |-> b, log |-> done]
    ELSE LET r == BlendPixel(c, b, Head(pts)[1], Head(pts)[2], pixel, dz, ub)
         IN  IF r.status # "ok"
             THEN [status |-> r.status, buf |-> b, log |-> done]
             ELSE BlendEach(c, r.buf, Tail(pts), Append(done, Head(pts)), pixel, dz, ub)

\* a Fill whose rows run to the stride
FillPoints_ToStride(c) ==
    IF c.Stride <= 0 \/ c.Height <= 0
    THEN << >>
    ELSE [k \in 1 .. (c.Stride * c.Height) |->
             << (k - 1) % c.Stride, (k - 1) \div c.Stride >>]

\* the coordinates Fill visits: y outer, x inner
FillPoints(c) ==
    IF c.Width <= 0 \/ c.Height <= 0
    THEN << >>
    ELSE [k \in 1 .. (c.Width * c.Height) |->
             << (k - 1) % c.Width, (k - 1) \div c.Width >>]

Fill(c, b, color, dz, ub) == BlendEach(c, b, FillPoints(c), << >>, color, dz, ub)

-----------------------------------------------------------------------------
(* Drawing *)

RECURSIVE LineLowFrom(_, _, _, _, _, _, _)
LineLowFrom(x, y, D, x1, dx, dy, yi) ==
    IF x > x1
    THEN << >>
    ELSE << <<x, y>> >> \o
         (IF D > 0
          THEN LineLowFrom(x + 1, y + yi, D + 2 * (dy - dx), x1, dx, dy, yi)
          ELSE LineLowFrom(x + 1, y, D + 2 * dy, x1, dx, dy, yi))

\* a LineLow whose loop stops before x1
LineLow_Exclusive(x0, y0, x1, y1) ==
    LET dx == x1 - x0
        dy == IF y1 - y0 >= 0 THEN y1 - y0 ELSE y0 - y1
        yi == IF y1 - y0 >= 0 THEN 1 ELSE -1
    IN  LineLowFrom(x0, y0, 2 * dy - dx, x1 - 1, dx, dy, yi)

\* the coordinates LineLow blends, in order
LineLow(x0, y0, x1, y1) ==
    LET dx == x1 - x0
        dy == IF y1 - y0 >= 0 THEN y1 - y0 ELSE y0 - y1
        yi == IF y1 - y0 >= 0 THEN 1 ELSE -1
    IN  LineLowFrom(x0, y0, 2 * dy - dx, x1, dx, dy, yi)

RECURSIVE LineHighFrom(_, _, _, _, _, _, _)
LineHighFrom(x, y, D, y1, dx, dy, xi) ==
    IF y > y1
    THEN << >>
    ELSE << <<x, y>> >> \o
         (IF D > 0
          THEN LineHighFrom(x + xi, y + 1, D + 2 * (dx - dy), y1, dx, dy, xi)
          ELSE LineHighFrom(x, y + 1, D + 2 * dx, y1, dx, dy, xi))

\* the coordinates LineHigh blends, in order
LineHigh(x0, y0, x1, y1) ==
    LET dx == IF x1 - x0 >= 0 THEN x1 - x0 ELSE x0 - x1
        xi == IF x1 - x0 >= 0 THEN 1 ELSE -1
        dy == y1 - y0
    IN  LineHighFrom(x0, y0, 2 * dx - dy, y1, dx, dy, xi)

\* a Line that never exchanges its endpoints
Line_NoSwap(x0, y0, x1, y1) ==
    IF Abs(y1 - y0) < Abs(x1 - x0)
    THEN LineLow(x0, y0, x1, y1)
    ELSE LineHigh(x0, y0, x1, y1)

\* the coordinates Line blends, in order
Line(x0, y0, x1, y1) ==
    IF Abs(y1 - y0) < Abs(x1 - x0)
    THEN IF x0 > x1 THEN LineLow(x1, y1, x0, y0) ELSE LineLow(x0, y0, x1, y1)
    ELSE IF y0 > y1 THEN LineHigh(x1, y1, x0, y0) ELSE LineHigh(x0, y0, x1, y1)

RECURSIVE PolygonFrom(_, _)
PolygonFrom(vertices, i) ==
    IF i > Len(vertices)
    THEN << >>
    ELSE LET p == vertices[i]
             q == vertices[(i % Len(vertices)) + 1]
         IN  Line(p[1], p[2], q[1], q[2]) \o PolygonFrom(vertices, i + 1)

\* a Polygon without the edge from the last vertex back to the first
Polygon_Open(vertices) ==
    LET n == Len(vertices)
        path[i \in 0 .. n] ==
            IF i = 0 THEN << >>
            ELSE path[i - 1] \o Line(vertices[i][1], vertices[i][2],
                                     vertices[(i % n) + 1][1], vertices[(i % n) + 1][2])
    IN  IF n = 0 THEN << >> ELSE path[n - 1]

\* the coordinates Polygon blends, in order: edge i joins vertices[i] and
\* vertices[(i + 1) % size] (indices from 0 in the source, from 1 here)
Polygon(vertices) == PolygonFrom(vertices, 1)

\* FillRectangle: SubCanvas, then Fill of the temporary view
FillRectangle(c, b, left, top, right, bottom, color, dz, ub) ==
    LET v == SubCanvas(c, left, top, right, bottom)
    IN  IF v.status # "ok"
        THEN [status |-> v.status, buf |-> b, log |-> << >>]
        ELSE Fill(v.cv, b, color, dz, ub)

\* int is 32 bits wide.  The arithmetic of the drawing routines is done on
\* the two 16-bit halves of the word so that it can leave the range of int:
\* signed overflow is undefined, a build either wraps the word or traps.
IntMax == 2147483647
IntMin == -IntMax - 1
Half == 65536
OverflowOutcomes == {"wrap", "trap"}

\* the point that stands for a trap in a sequence of coordinates
Overflowed == <<0, 0, "overflow">>

\* the 16-bit halves of the word of a
Lo(a) == a % Half
Hi(a) == (a \div Half) % Half

\* the int whose word has the halves hi and lo
FromHalves(hi, lo) == (IF hi >= Half \div 2 THEN hi - Half ELSE hi) * Half + lo

\* a is small enough for sums, differences and products of two such numbers
\* to stay in int
Short(a) == -(Half \div 2) < a /\ a < Half \div 2

\* a + b, a - b and a * b on the word
WrapAdd(a, b) ==
    IF Short(a) /\ Short(b)
    THEN a + b
    ELSE LET lo == Lo(a) + Lo(b)
         IN  FromHalves((Hi(a) + Hi(b) + (lo \div Half)) % Half, lo % Half)

WrapNeg(a) ==
    IF Short(a) THEN -a
    ELSE WrapAdd(FromHalves(Half - 1 - Hi(a), Half - 1 - Lo(a)), 1)

WrapSub(a, b) == IF Short(a) /\ Short(b) THEN a - b ELSE WrapAdd(a, WrapNeg(b))

\* u * v for 16-bit u and v, as the halves <<high, low>> of the product
Mul16(u, v) ==
    LET t0 == (u % 256) * v
        t1 == (u \div 256) * v
        t == t0 + (t1 % 256) * 256
    IN  << t \div Half + t1 \div 256, t % Half >>

WrapMul(a, b) ==
    IF Short(a) /\ Short(b)
    THEN a * b
    ELSE LET p == Mul16(Lo(a), Lo(b))
         IN  FromHalves((p[1] + Mul16(Hi(a), Lo(b))[2] + Mul16(Lo(a), Hi(b))[2]) % Half,
                        p[2])

\* the operation leaves the range of int
AddOverflows(a, b) ==
    /\ ~(Short(a) /\ Short(b))
    /\ \/ a >= 0 /\ b >= 0 /\ WrapAdd(a, b) < 0
       \/ a < 0 /\ b < 0 /\ WrapAdd(a, b) >= 0

SubOverflows(a, b) ==
    /\ ~(Short(a) /\ Short(b))
    /\ \/ a >= 0 /\ b < 0 /\ WrapSub(a, b) < 0
       \/ a < 0 /\ b >= 0 /\ WrapSub(a, b) >= 0

MulOverflows(a, b) ==
    /\ ~(Short(a) /\ Short(b))
    /\ a # 0
    /\ IF a = -1 THEN b = IntMin ELSE WrapMul(a, b) \div a # b

DivOverflows(a, b) == a = IntMin /\ b = -1

\* the quotient of C++ for b # 0: rounded towards zero; IntMin / -1, which
\* has no value in int, is left as IntMin
TruncDiv(a, b) ==
    LET Pos(n, d) == IF n >= 0 \/ n % d = 0 THEN n \div d ELSE (n \div d) + 1
    IN  IF b > 0 THEN Pos(a, b)
        ELSE IF b = -1 THEN WrapNeg(a)
        ELSE IF b = IntMin THEN (IF a = IntMin THEN 1 ELSE 0)
        ELSE -Pos(a, -b)

\* x0 + (y - y0) * (xe - x0) / (y1 - y0), the x of an edge in row y
Interpolate(x0, y, y0, xe, y1) ==
    WrapAdd(x0, TruncDiv(WrapMul(WrapSub(y, y0), WrapSub(xe, x0)), WrapSub(y1, y0)))

\* one of the operations of Interpolate leaves the range of int
InterpolateOverflows(x0, y, y0, xe, y1) ==
    \/ SubOverflows(y, y0)
    \/ SubOverflows(xe, x0)
    \/ SubOverflows(y1, y0)
    \/ MulOverflows(WrapSub(y, y0), WrapSub(xe, x0))
    \/ DivOverflows(WrapMul(WrapSub(y, y0), WrapSub(xe, x0)), WrapSub(y1, y0))
    \/ AddOverflows(x0, TruncDiv(WrapMul(WrapSub(y, y0), WrapSub(xe, x0)),
                                 WrapSub(y1, y0)))

\* std::clamp for lo <= hi
Clamp(v, lo, hi) == IF v < lo THEN lo ELSE IF hi < v THEN hi ELSE v

\* the coordinates FillFlatTriangle blends in row y and the rows after it;
\* xa <= xb are the ends of the flat side.  A loop whose y has left the canvas
\* by more than RowsBeyond rows is followed no further.
RECURSIVE FlatRows(_, _, _, _, _, _, _, _, _, _)
FlatRows(c, y, yend, dy, x0, y0, xa, xb, y1, ov) ==
    IF y = yend \/ y < -RowsBeyond \/ y > c.Height - 1 + RowsBeyond
    THEN << >>
    ELSE LET x_left == Interpolate(x0, y, y0, xa, y1)
             x_right == Interpolate(x0, y, y0, xb, y1)
             first == Max(0, x_left)
             last == Min(c.Width, WrapAdd(x_right, 1)) - 1
             row == IF last < first
                    THEN << >>
                    ELSE [k \in 1 .. (last - first + 1) |-> <<first + k - 1, y>>]
         IN  IF /\ ov = "trap"
                /\ \/ InterpolateOverflows(x0, y, y0, xa, y1)
                   \/ InterpolateOverflows(x0, y, y0, xb, y1)
                   \/ AddOverflows(x_right, 1)
             THEN << Overflowed >>
             ELSE row \o FlatRows(c, y + dy, yend, dy, x0, y0, xa, xb, y1, ov)

\* the coordinates FillFlatTriangle blends, in order, on a canvas of height at
\* least 1 (std::clamp(v, 0, Height - 1) is undefined on a lower one)
FillFlatTriangle(c, x0, y0, x1, y1, x2, ov) ==
    IF y1 = y0
    THEN << >>
    ELSE LET dy == IF y1 > y0 THEN 1 ELSE -1
         IN  IF ov = "trap" /\ AddOverflows(y1, dy)
             THEN << Overflowed >>
             ELSE FlatRows(c, Clamp(y0, 0, c.Height - 1),
                           Clamp(WrapAdd(y1, dy), 0, c.Height - 1),
                           dy, x0, y0, Min(x1, x2), Max(x1, x2), y1, ov)

\* the vertices in the order the three exchanges of FillTriangle leave them
SortByY(x0, y0, x1, y1, x2, y2) ==
    LET a == IF y0 > y1 THEN <<x1, y1, x0, y0, x2, y2>> ELSE <<x0, y0, x1, y1, x2, y2>>
        b == IF a[2] > a[6] THEN <<a[5], a[6], a[3], a[4], a[1], a[2]>> ELSE a
    IN  IF b[4] > b[6] THEN <<b[1], b[2], b[5], b[6], b[3], b[4]>> ELSE b

\* the two flat triangles of FillTriangle, for vertices v in the order of
\* SortByY with v[4] # v[6]
TwoFlatTriangles(c, v, ov) ==
    IF ov = "trap" /\ InterpolateOverflows(v[1], v[4], v[2], v[5], v[6])
    THEN << Overflowed >>
    ELSE FillFlatTriangle(c, v[1], v[2], v[3], v[4],
                          Interpolate(v[1], v[4], v[2], v[5], v[6]), ov)
         \o FillFlatTriangle(c, v[5], v[6], v[3], v[4] + 1,
                             Interpolate(v[1], v[4], v[2], v[5], v[6]), ov)

\* a FillTriangle that plots the vertex of a triangle shrunk to one point
FillTriangle_PlotsVertex(c, x0, y0, x1, y1, x2, y2, ov) ==
    LET v == SortByY(x0, y0, x1, y1, x2, y2)
    IN  IF <<x0, y0>> = <<x1, y1>> /\ <<x1, y1>> = <<x2, y2>>
        THEN << <<x0, y0>> >>
        ELSE IF v[4] = v[6]
        THEN FillFlatTriangle(c, v[1], v[2], v[3], v[4], v[5], ov)
        ELSE TwoFlatTriangles(c, v, ov)

\* the coordinates FillTriangle blends, in order; Overflowed where it traps
FillTriangle(c, x0, y0, x1, y1, x2, y2, ov) ==
    LET v == SortByY(x0, y0, x1, y1, x2, y2)
    IN  IF v[4] = v[6]
        THEN FillFlatTriangle(c, v[1], v[2], v[3], v[4], v[5], ov)
        ELSE TwoFlatTriangles(c, v, ov)

\* the outcomes of overflow that a call with these coordinates can meet: the
\* differences and products of coordinates below 2^14 in size stay in int
OverflowFor(coordinates) ==
    IF \A k \in DOMAIN coordinates :
          -(Half \div 4) < coordinates[k] /\ coordinates[k] < Half \div 4
    THEN {"wrap"}
    ELSE OverflowOutcomes

\* the coordinates of pts before the first trap
BeforeTrap(pts) ==
    IF \E k \in 1 .. Len(pts) : pts[k] = Overflowed
    THEN SubSeq(pts, 1, (CHOOSE k \in 1 .. Len(pts) :
                            /\ pts[k] = Overflowed
                            /\ \A j \in 1 .. (k - 1) : pts[j] # Overflowed) - 1)
    ELSE pts

-----------------------------------------------------------------------------
(* Transforms *)

\* the pixel Rotate blends where the source has none
Sentinel == CombineRGBA(255, 255, 255, 0)

\* for each item <<dst_x, dst_y, src_x, src_y>> in order: read the source
\* pixel (Rotate, guarded, takes Sentinel outside the source) and blend it into
\* the destination, until a call fails; b holds the pixels of both canvases
RECURSIVE TransferEach(_, _, _, _, _, _, _, _)
TransferEach(s, c, b, items, done, guarded, dz, ub) ==
    IF items = << >>
    THEN [status |-> "ok", buf |-> b, log |-> done]
    ELSE LET it == Head(items)
             r == IF guarded /\ ~IsWithinBounds(s, it[3], it[4])
                  THEN [status |-> "ok", ret |-> Sentinel]
                  ELSE Pixel(s, b, it[3], it[4], ub)
             w == BlendPixel(c, b, it[1], it[2], r.ret, dz, ub)
         IN  IF r.status # "ok"
             THEN [status |-> r.status, buf |-> b, log |-> done]
             ELSE IF w.status # "ok"
                  THEN [status |-> w.status, buf |-> b, log |-> done]
                  ELSE TransferEach(s, c, w.buf, Tail(items), Append(done, it),
                                    guarded, dz, ub)

\* a sample coordinate rounded to the nearest source pixel
SrcCoord_Nearest(rel, extent, target, mirrored) ==
    LET q == IF target = 0 THEN 0 ELSE TruncDiv(rel * extent + (target \div 2), target)
    IN  IF mirrored THEN extent - 1 - q ELSE q

\* src_x (src_y) of Copy for a destination pixel rel columns (rows) into the
\* target; a division by target = 0 is flagged by CopyDivides
SrcCoord(rel, extent, target, mirrored) ==
    LET q == IF target = 0 THEN 0 ELSE TruncDiv(rel * extent, target)
    IN  IF mirrored THEN extent - 1 - q ELSE q

\* the clipped destination range of Copy: <<left, top, start_x, start_y, end_x, end_y>>
CopyRange(c, left, top, right, bottom) ==
    LET r == SortTopLeft(left, top, right, bottom)
    IN  << r[1], r[2], Max(r[1], 0), Max(r[2], 0),
           Min(r[3], c.Width), Min(r[4], c.Height) >>

\* TRUE iff Copy reaches one of its two divisions with a zero divisor
CopyDivides(c, left, top, right, bottom) ==
    LET g == CopyRange(c, left, top, right, bottom)
    IN  /\ g[4] < g[6]
        /\ \/ top = bottom
           \/ (g[3] < g[5] /\ left = right)

\* a Copy that measures the sample from the clipped start of the range
CopyItems_FromClip(s, c, left, top, right, bottom) ==
    LET g == CopyRange(c, left, top, right, bottom)
        w == Max(g[5] - g[3], 0)
        h == Max(g[6] - g[4], 0)
    IN  [k \in 1 .. (w * h) |->
            LET dst_x == g[3] + ((k - 1) % w)
                dst_y == g[4] + ((k - 1) \div w)
            IN  << dst_x, dst_y,
                   SrcCoord(dst_x - g[3], s.Width, Abs(left - right), left > right),
                   SrcCoord(dst_y - g[4], s.Height, Abs(top - bottom), top > bottom) >>]

\* the items of Copy, rows outer and columns inner
CopyItems(s, c, left, top, right, bottom) ==
    LET g == CopyRange(c, left, top, right, bottom)
        w == Max(g[5] - g[3], 0)
        h == Max(g[6] - g[4], 0)
    IN  [k \in 1 .. (w * h) |->
            LET dst_x == g[3] + ((k - 1) % w)
                dst_y == g[4] + ((k - 1) \div w)
            IN  << dst_x, dst_y,
                   SrcCoord(dst_x - g[1], s.Width, Abs(left - right), left > right),
                   SrcCoord(dst_y - g[2], s.Height, Abs(top - bottom), top > bottom) >>]

\* Canvas::Empty
Empty(c) == c.Width = 0 \/ c.Height = 0

\* transform::Copy
Copy(s, c, b, left, top, right, bottom, dz, ub) ==
    IF Empty(s)
    THEN [status |-> "ok", buf |-> b, log |-> << >>]
    ELSE IF CopyDivides(c, left, top, right, bottom) /\ dz = "trap"
         THEN [status |-> "DivideByZero", buf |-> b, log |-> << >>]
         ELSE TransferEach(s, c, b, CopyItems(s, c, left, top, right, bottom),
                           << >>, FALSE, dz, ub)

\* sine and cosine of a rotation by turn quarter turns; std::lround takes
\* the products with them to these integers
QuarterTurns == 0 .. 3
Sin(turn) == <<0, 1, 0, -1>>[turn + 1]
Cos(turn) == <<1, 0, -1, 0>>[turn + 1]

ApplyRotation(x, y, sin, cos) == << cos * x + sin * y, (-sin) * x + cos * y >>

\* least and greatest element of a set of integers
MinOf(S) == CHOOSE m \in S : \A n \in S : m <= n
MaxOf(S) == CHOOSE m \in S : \A n \in S : n <= m

\* the clipped destination range of Rotate: <<start_x, start_y, end_x, end_y>>
RotateRange(s, c, src_origin_x, src_origin_y, dst_origin_x, dst_origin_y, turn) ==
    LET src_left == -src_origin_x
        src_top == -src_origin_y
        src_right == src_left + s.Width
        src_bottom == src_top + s.Height
        corners == { ApplyRotation(p[1], p[2], Sin(turn), Cos(turn)) :
                        p \in { <<src_left, src_top>>, <<src_right, src_top>>,
                                <<src_right, src_bottom>>, <<src_left, src_bottom>> } }
        xs == { p[1] : p \in corners }
        ys == { p[2] : p \in corners }
    IN  << Max(MinOf(xs) + dst_origin_x, 0), Max(MinOf(ys) + dst_origin_y, 0),
           Min(MaxOf(xs) + dst_origin_x, c.Width), Min(MaxOf(ys) + dst_origin_y, c.Height) >>

\* a Rotate whose loops include end_x and end_y
RotateItems_Inclusive(s, c, src_origin_x, src_origin_y, dst_origin_x, dst_origin_y, turn) ==
    LET g == RotateRange(s, c, src_origin_x, src_origin_y, dst_origin_x, dst_origin_y, turn)
        w == Max(g[3] - g[1] + 1, 0)
        h == Max(g[4] - g[2] + 1, 0)
    IN  [k \in 1 .. (w * h) |->
            LET x2 == g[1] + ((k - 1) % w)
                y2 == g[2] + ((k - 1) \div w)
                p == ApplyRotation(x2 - dst_origin_x, y2 - dst_origin_y,
                                   -Sin(turn), Cos(turn))
            IN  << x2, y2, p[1] + src_origin_x, p[2] + src_origin_y >>]

\* the items of Rotate, rows outer and columns inner
RotateItems(s, c, src_origin_x, src_origin_y, dst_origin_x, dst_origin_y, turn) ==
    LET g == RotateRange(s, c, src_origin_x, src_origin_y, dst_origin_x, dst_origin_y, turn)
        w == Max(g[3] - g[1], 0)
        h == Max(g[4] - g[2], 0)
    IN  [k \in 1 .. (w * h) |->
            LET x2 == g[1] + ((k - 1) % w)
                y2 == g[2] + ((k - 1) \div w)
                p == ApplyRotation(x2 - dst_origin_x, y2 - dst_origin_y,
                                   -Sin(turn), Cos(turn))
            IN  << x2, y2, p[1] + src_origin_x, p[2] + src_origin_y >>]

\* transform::Rotate by a whole number of quarter turns
Rotate(s, c, b, src_origin_x, src_origin_y, dst_origin_x, dst_origin_y, turn, dz, ub) ==
    TransferEach(s, c, b,
                 RotateItems(s, c, src_origin_x, src_origin_y, dst_origin_x,
                             dst_origin_y, turn),
                 << >>, TRUE, dz, ub)

-----------------------------------------------------------------------------
(* Blend functions applied to sampled pixels *)

AlphaSamples ==
    (0 .. EdgeWidth) \cup ((128 - EdgeWidth) .. (128 + EdgeWidth))
        \cup ((255 - EdgeWidth) .. 255)

ColorSamples == {0, 100, 255}

BlendInputs ==
    { CombineRGBA(r, g, b, a) :
        r \in ColorSamples, g \in ColorSamples, b \in ColorSamples, a \in AlphaSamples }

InitBlend ==
    /\ fg \in BlendInputs
    /\ bg \in BlendInputs
    /\ strict = FALSE
    /\ buf = << >>
    /\ canvas = NoCanvas
    /\ sub = NoCanvas
    /\ rect = << >>
    /\ pc = "ready"
    /\ call = [op |-> "init"]
    /\ status = "init"
    /\ ret = NoPixel
    /\ log = << >>
    /\ pre = << >>
    /\ src = NoCanvas
    /\ twin = NoTwin
    /\ threads = << >>
    /\ pool = NoPool
    /\ guards = NoGuards

CallAlphaBlend ==
    /\ pc = "ready"
    /\ \E dz \in DivZeroOutcomes :
          LET r == AlphaBlend(fg, bg, dz)
          IN  /\ ret' = r
              /\ status' = IF r = Fault THEN "fault" ELSE "ok"
    /\ call' = [op |-> "AlphaBlend"]
    /\ pc' = "done"
    /\ UNCHANGED <<strict, buf, canvas, sub, rect, log, pre, fg, bg, src, twin, threads, pool, guards>>

CallFastAlphaBlend ==
    /\ pc = "ready"
    /\ ret' = FastAlphaBlend(fg, bg)
    /\ status' = "ok"
    /\ call' = [op |-> "FastAlphaBlend"]
    /\ pc' = "done"
    /\ UNCHANGED <<strict, buf, canvas, sub, rect, log, pre, fg, bg, src, twin, threads, pool, guards>>

NextBlend ==
    \/ CallAlphaBlend
    \/ CallFastAlphaBlend

SpecBlend == InitBlend /\ [][NextBlend]_vars

-----------------------------------------------------------------------------
(* Claims about AlphaBlend, under SpecBlend *)

\* the arithmetic of the claims, on channel tuples <<r, g, b, a>>
ClaimOutA(f, b) == f[4] + (b[4] * (255 - f[4])) \div 255
ClaimOutC(f, b, i) ==
    (f[i] * f[4] + (b[i] * b[4] * (255 - f[4])) \div 255) \div ClaimOutA(f, b)

\* C1: whenever the computed alpha fgA + bgA*(255-fgA)/255 is 0, AlphaBlend
\* does not fail and returns a pixel whose alpha is 0.
C1_ZeroAlphaIsTransparent ==
    (call.op = "AlphaBlend"
        /\ ClaimOutA(DeconstructRGBA(fg), DeconstructRGBA(bg)) = 0)
    => (status = "ok" /\ Alpha(ret) = 0)

\* C2: a foreground of alpha 255 is returned as it is, and under a foreground
\* of alpha 0 the background is returned as it is, in all four channels.
C2_OpaqueAndTransparentForeground ==
    call.op = "AlphaBlend"
    => /\ Alpha(fg) = 255 => (status = "ok" /\ ret = fg)
       /\ Alpha(fg) = 0 => (status = "ok" /\ ret = bg)

\* C3: whenever the computed alpha is positive, AlphaBlend returns that alpha
\* and, per colour channel, (fgC*fgA + bgC*bgA*(255-fgA)/255) / outA.
C3_CompositeFormula ==
    LET f == DeconstructRGBA(fg)
        b == DeconstructRGBA(bg)
    IN  (call.op = "AlphaBlend" /\ ClaimOutA(f, b) > 0)
        => /\ status = "ok"
           /\ DeconstructRGBA(ret) =
                 << ClaimOutC(f, b, 1), ClaimOutC(f, b, 2), ClaimOutC(f, b, 3),
                    ClaimOutA(f, b) >>

\* C27: whenever the computed alpha is positive, the quotient of each colour
\* channel is at most 255 before it is packed, and each channel of the result
\* lies between that channel of the foreground and of the background; so a
\* colour composited over the same colour gives that colour.
C27_NoChannelWraps ==
    LET f == DeconstructRGBA(fg)
        b == DeconstructRGBA(bg)
        o == DeconstructRGBA(ret)
    IN  (call.op = "AlphaBlend" /\ OutAlpha(fg, bg) > 0)
        => /\ status = "ok"
           /\ \A i \in 1 .. 3 :
                 /\ ChannelSum(fg, bg, i) \div OutAlpha(fg, bg) <= 255
                 /\ Min(f[i], b[i]) <= o[i]
                 /\ o[i] <= Max(f[i], b[i])

-----------------------------------------------------------------------------
(* Claims about FastAlphaBlend, under SpecBlend *)

\* C21 as stated: FastAlphaBlend returns a pixel of alpha 255 for every
\* foreground and every background.
C21_AlwaysOpaque ==
    call.op = "FastAlphaBlend" => Alpha(ret) = 255

\* C21: FastAlphaBlend returns a pixel of alpha 255 for every foreground whose
\* alpha is not 0 and every background; under a foreground of alpha 0 the
\* result has the alpha of the background.
C21_OpaqueUnlessForegroundTransparent ==
    call.op = "FastAlphaBlend"
    => /\ status = "ok"
       /\ Alpha(fg) # 0 => Alpha(ret) = 255
       /\ Alpha(fg) = 0 => Alpha(ret) = Alpha(bg)

\* C21 witness: a translucent foreground over a translucent background
C21_Witness ==
    /\ call.op = "FastAlphaBlend"
    /\ Alpha(fg) = 128
    /\ Alpha(bg) = 128
    /\ Alpha(ret) = 255

\* C22: under a foreground of alpha 0, FastAlphaBlend returns the background
\* as it is, in all four channels.
C22_TransparentForegroundKeepsBackground ==
    (call.op = "FastAlphaBlend" /\ Alpha(fg) = 0)
    => (status = "ok" /\ ret = bg /\ DeconstructRGBA(ret) = DeconstructRGBA(bg))

\* C22 witness: a coloured foreground of alpha 0 over a translucent background
\* of another colour
C22_Witness ==
    /\ call.op = "FastAlphaBlend"
    /\ Alpha(fg) = 0
    /\ Alpha(bg) = 128
    /\ DeconstructRGBA(fg)[1] = 255
    /\ DeconstructRGBA(bg)[1] = 0
    /\ ret = bg

-----------------------------------------------------------------------------
(* The Canvas constructor applied to sampled arguments *)

InitCtor ==
    /\ strict \in BOOLEAN
    /\ src = NoCanvas
    /\ buf = << >>
    /\ canvas = NoCanvas
    /\ sub = NoCanvas
    /\ rect = << >>
    /\ pc = "ready"
    /\ call = [op |-> "init"]
    /\ status = "init"
    /\ ret = NoPixel
    /\ log = << >>
    /\ pre = << >>
    /\ fg = NoPixel
    /\ bg = NoPixel
    /\ twin = NoTwin
    /\ threads = << >>
    /\ pool = NoPool
    /\ guards = NoGuards

CallConstruct(width, height, stride, mode) ==
    /\ pc = "ready"
    /\ LET r == Construct(0, width, height, stride, mode)
       IN  /\ canvas' = r.cv
           /\ status' = r.status
    /\ call' = [op |-> "Construct", args |-> <<width, height, stride>>, mode |-> mode]
    /\ pc' = "done"
    /\ UNCHANGED <<strict, buf, sub, rect, ret, log, pre, fg, bg, src, twin, threads, pool, guards>>

NextCtor ==
    /\ pc = "ready"
    /\ \E width \in -1 .. MaxWidth, height \in -1 .. MaxHeight,
          stride \in -1 .. (MaxWidth + 1), mode \in BlendModes :
           CallConstruct(width, height, stride, mode)

SpecCtor == InitCtor /\ [][NextCtor]_vars

-----------------------------------------------------------------------------
(* A program that constructs a Canvas over its buffer and calls it *)

ZeroBuffer(n) == [i \in 0 .. (n - 1) |-> Transparent]
ImageBuffer(n) == [i \in 0 .. (n - 1) |-> CombineRGBA(i + 1, 2 * i, 0, 255)]
InitBuffers(n) == {ZeroBuffer(n), ImageBuffer(n)}

\* rows are packed, or padded as the rows of a view into a wider image are
Strides(width) == {width, MaxWidth + 1}

\* the outcomes that a call on c can meet
DivZeroFor(c) == IF c.mode = "ALPHA_COMPOSITING" THEN DivZeroOutcomes ELSE {"trap"}
UBFor == IF strict THEN {Fault} ELSE UBOutcomes

XCoords == -1 .. MaxWidth
YCoords == -1 .. MaxHeight

\* vertices given to Polygon
VertexSamples ==
    { <<0, 0>>, <<MaxWidth - 1, MaxHeight - 1>>, <<0, MaxHeight - 1>>, <<MaxWidth, 0>> }
VertexLists == UNION { [1 .. n -> VertexSamples] : n \in 0 .. MaxVertices }

\* everything but the build, the canvas, its buffer and its view
Fresh ==
    /\ pc = "ready"
    /\ call = [op |-> "init"]
    /\ status = "init"
    /\ ret = NoPixel
    /\ log = << >>
    /\ pre = buf
    /\ fg = NoPixel
    /\ bg = NoPixel
    /\ twin = NoTwin
    /\ threads = << >>
    /\ pool = NoPool
    /\ guards = NoGuards

Init ==
    /\ strict \in BOOLEAN
    /\ src = NoCanvas
    /\ \E width \in 0 .. MaxWidth, height \in 0 .. MaxHeight, mode \in BlendModes :
          \E stride \in Strides(width) :
              /\ canvas = Construct(0, width, height, stride, mode).cv
              /\ buf \in InitBuffers(stride * height)
    /\ sub = NoCanvas
    /\ rect = << >>
    /\ Fresh

Targets == IF sub = NoCanvas THEN {"canvas"} ELSE {"canvas", "sub"}
Target(who) == IF who = "canvas" THEN canvas ELSE sub

CallSetBlendMode(who, mode) ==
    /\ pc = "ready"
    /\ canvas' = IF who = "canvas" THEN [canvas EXCEPT !.mode = mode] ELSE canvas
    /\ sub' = IF who = "sub" THEN [sub EXCEPT !.mode = mode] ELSE sub
    /\ call' = [op |-> "SetBlendMode", who |-> who, args |-> << >>, color |-> NoPixel]
    /\ status' = "ok"
    /\ ret' = NoPixel
    /\ log' = << >>
    /\ pre' = buf
    /\ pc' = "done"
    /\ UNCHANGED <<strict, buf, rect, fg, bg, src, twin, threads, pool, guards>>

CallSubCanvas(x0, y0, x1, y1) ==
    /\ pc = "ready"
    /\ sub = NoCanvas
    /\ LET r == SubCanvas(canvas, x0, y0, x1, y1)
       IN  /\ sub' = r.cv
           /\ status' = r.status
           /\ rect' = IF r.status = "ok" THEN SortTopLeft(x0, y0, x1, y1) ELSE rect
    /\ pc' = "done"
    /\ call' = [op |-> "SubCanvas", who |-> "canvas", args |-> <<x0, y0, x1, y1>>,
                color |-> NoPixel]
    /\ ret' = NoPixel
    /\ log' = << >>
    /\ pre' = buf
    /\ UNCHANGED <<strict, buf, canvas, fg, bg, src, twin, threads, pool, guards>>

CallPixel(who, x, y) ==
    /\ pc = "ready"
    /\ \E ub \in UBFor :
          LET r == Pixel(Target(who), buf, x, y, ub)
          IN  /\ status' = r.status
              /\ ret' = r.ret
    /\ call' = [op |-> "Pixel", who |-> who, args |-> <<x, y>>, color |-> NoPixel]
    /\ log' = << >>
    /\ pre' = buf
    /\ pc' = "done"
    /\ UNCHANGED <<strict, buf, canvas, sub, rect, fg, bg, src, twin, threads, pool, guards>>

CallOverwritePixel(who, x, y, color) ==
    /\ pc = "ready"
    /\ \E ub \in UBFor :
          LET r == OverwritePixel(Target(who), buf, x, y, color, ub)
          IN  /\ status' = r.status
              /\ buf' = r.buf
    /\ call' = [op |-> "OverwritePixel", who |-> who, args |-> <<x, y>>, color |-> color]
    /\ ret' = NoPixel
    /\ log' = << >>
    /\ pre' = buf
    /\ pc' = "done"
    /\ UNCHANGED <<strict, canvas, sub, rect, fg, bg, src, twin, threads, pool, guards>>

CallBlendPixel(who, x, y, color) ==
    /\ pc = "ready"
    /\ \E dz \in DivZeroFor(Target(who)), ub \in UBFor :
          LET r == BlendEach(Target(who), buf, << <<x, y>> >>, << >>, color, dz, ub)
          IN  /\ status' = r.status
              /\ buf' = r.buf
              /\ log' = r.log
    /\ call' = [op |-> "BlendPixel", who |-> who, args |-> <<x, y>>, color |-> color]
    /\ ret' = NoPixel
    /\ pre' = buf
    /\ pc' = "done"
    /\ UNCHANGED <<strict, canvas, sub, rect, fg, bg, src, twin, threads, pool, guards>>

CallFill(who, color) ==
    /\ pc = "ready"
    /\ \E dz \in DivZeroFor(Target(who)), ub \in UBFor :
          LET r == Fill(Target(who), buf, color, dz, ub)
          IN  /\ status' = r.status
              /\ buf' = r.buf
              /\ log' = r.log
    /\ call' = [op |-> "Fill", who |-> who, args |-> << >>, color |-> color]
    /\ ret' = NoPixel
    /\ pre' = buf
    /\ pc' = "done"
    /\ UNCHANGED <<strict, canvas, sub, rect, fg, bg, src, twin, threads, pool, guards>>

CallFillRectangle(x0, y0, x1, y1, color) ==
    /\ pc = "ready"
    /\ \E dz \in DivZeroFor(canvas), ub \in UBFor :
          LET r == FillRectangle(canvas, buf, x0, y0, x1, y1, color, dz, ub)
          IN  /\ status' = r.status
              /\ buf' = r.buf
              /\ log' = r.log
    /\ call' = [op |-> "FillRectangle", who |-> "canvas", args |-> <<x0, y0, x1, y1>>,
                color |-> color]
    /\ ret' = NoPixel
    /\ pre' = buf
    /\ pc' = "done"
    /\ UNCHANGED <<strict, canvas, sub, rect, fg, bg, src, twin, threads, pool, guards>>

CallLine(x0, y0, x1, y1, color) ==
    /\ pc = "ready"
    /\ \E dz \in DivZeroFor(canvas), ub \in UBFor :
          LET r == BlendEach(canvas, buf, Line(x0, y0, x1, y1), << >>, color, dz, ub)
          IN  /\ status' = r.status
              /\ buf' = r.buf
              /\ log' = r.log
    /\ call' = [op |-> "Line", who |-> "canvas", args |-> <<x0, y0, x1, y1>>,
                color |-> color]
    /\ ret' = NoPixel
    /\ pre' = buf
    /\ pc' = "done"
    /\ UNCHANGED <<strict, canvas, sub, rect, fg, bg, src, twin, threads, pool, guards>>

CallPolygon(vertices, color) ==
    /\ pc = "ready"
    /\ \E dz \in DivZeroFor(canvas), ub \in UBFor :
          LET r == BlendEach(canvas, buf, Polygon(vertices), << >>, color, dz, ub)
          IN  /\ status' = r.status
              /\ buf' = r.buf
              /\ log' = r.log
    /\ call' = [op |-> "Polygon", who |-> "canvas", args |-> vertices, color |-> color]
    /\ ret' = NoPixel
    /\ pre' = buf
    /\ pc' = "done"
    /\ UNCHANGED <<strict, canvas, sub, rect, fg, bg, src, twin, threads, pool, guards>>

Next ==
    \/ /\ pc = "ready"
       /\ \E mode \in BlendModes : CallSetBlendMode("canvas", mode)
    \/ /\ pc = "ready"
       /\ \E x0 \in XCoords, y0 \in YCoords, x1 \in XCoords, y1 \in YCoords :
                CallSubCanvas(x0, y0, x1, y1)
    \/ /\ pc = "ready"
       /\ \E x \in XCoords, y \in YCoords : CallPixel("canvas", x, y)
    \/ /\ pc = "ready"
       /\ \E x \in XCoords, y \in YCoords, color \in Palette :
                CallOverwritePixel("canvas", x, y, color)
    \/ /\ pc = "ready"
       /\ \E x \in XCoords, y \in YCoords, color \in Palette :
                CallBlendPixel("canvas", x, y, color)
    \/ /\ pc = "ready"
       /\ \E color \in Palette : CallFill("canvas", color)

Spec == Init /\ [][Next]_vars

-----------------------------------------------------------------------------
(* A program that takes a view of its canvas and calls either of the two *)

\* the corners, already sorted, that SubCanvas accepts in every build
ViewCorners(c) ==
    { r \in (0 .. MaxWidth) \X (0 .. MaxHeight) \X (0 .. MaxWidth) \X (0 .. MaxHeight) :
        /\ r[1] <= r[3]
        /\ r[2] <= r[4]
        /\ IsWithinBounds(c, r[1], r[2])
        /\ IsWithinBounds(c, r[3] - 1, r[4] - 1) }

InitView ==
    /\ strict \in BOOLEAN
    /\ src = NoCanvas
    /\ \E width \in 0 .. MaxWidth, height \in 0 .. MaxHeight, mode \in BlendModes :
          \E stride \in Strides(width) :
              /\ canvas = Construct(0, width, height, stride, mode).cv
              /\ buf \in InitBuffers(stride * height)
    /\ \E r \in ViewCorners(canvas) :
          /\ rect = r
          /\ sub = SubCanvas(canvas, r[1], r[2], r[3], r[4]).cv
    /\ Fresh

NextView ==
    \/ /\ pc = "ready"
       /\ \E who \in Targets, x \in XCoords, y \in YCoords : CallPixel(who, x, y)
    \/ /\ pc = "ready"
       /\ \E who \in Targets, x \in XCoords, y \in YCoords, color \in Palette :
                CallOverwritePixel(who, x, y, color)
    \/ /\ pc = "ready"
       /\ \E who \in Targets, x \in XCoords, y \in YCoords, color \in Palette :
                CallBlendPixel(who, x, y, color)
    \/ /\ pc = "ready"
       /\ \E who \in Targets, color \in Palette : CallFill(who, color)

SpecView == InitView /\ [][NextView]_vars

-----------------------------------------------------------------------------
(* A program that draws one figure on a canvas with packed rows *)

InitDraw ==
    /\ strict \in BOOLEAN
    /\ src = NoCanvas
    /\ \E width \in 0 .. MaxWidth, height \in 0 .. MaxHeight, mode \in BlendModes :
          /\ canvas = Construct(0, width, height, width, mode).cv
          /\ buf = ImageBuffer(width * height)
    /\ sub = NoCanvas
    /\ rect = << >>
    /\ Fresh

NextDraw ==
    \/ /\ pc = "ready"
       /\ \E x0 \in XCoords, y0 \in YCoords, x1 \in XCoords, y1 \in YCoords,
                color \in Palette : CallFillRectangle(x0, y0, x1, y1, color)
    \/ /\ pc = "ready"
       /\ \E x0 \in XCoords, y0 \in YCoords, x1 \in XCoords, y1 \in YCoords,
                color \in Palette : CallLine(x0, y0, x1, y1, color)
    \/ /\ pc = "ready"
       /\ \E vertices \in VertexLists, color \in Palette : CallPolygon(vertices, color)
    \/ /\ pc = "ready"
       /\ \E color \in Palette : CallFill("canvas", color)

SpecDraw == InitDraw /\ [][NextDraw]_vars

-----------------------------------------------------------------------------
(* Claims about the constructor, under SpecCtor *)

\* the arguments the claims call invalid
BadExtent(width, height, stride) == width < 0 \/ height < 0 \/ stride < width

-----------------------------------------------------------------------------
(* Claims about single calls on the canvas, under Spec *)

\* (x, y) lies outside [0, Width) x [0, Height)
Outside(c, x, y) == x < 0 \/ y < 0 \/ x >= c.Width \/ y >= c.Height

\* C4: in a checked build Pixel, BlendPixel and OverwritePixel fail with
\* OutOfBounds at every coordinate outside the canvas, and the failed call
\* leaves the whole buffer as it was.
C4_OutOfBoundsRejected ==
    (strict
        /\ call.op \in {"Pixel", "BlendPixel", "OverwritePixel"}
        /\ Outside(canvas, call.args[1], call.args[2]))
    => (status = "OutOfBounds" /\ buf = pre /\ ret = NoPixel /\ log = << >>)

\* C4 witness: BlendPixel was refused at x = Width on a canvas whose buffer
\* holds an image.
C4_Witness ==
    /\ strict
    /\ call.op = "BlendPixel"
    /\ status = "OutOfBounds"
    /\ canvas.Height > 0
    /\ call.args = <<canvas.Width, 0>>
    /\ buf # ZeroBuffer(canvas.Stride * canvas.Height)

\* C7: in a checked build SubCanvas fails with OutOfBounds when the sorted
\* rectangle is not inside [0, Width] x [0, Height], and returns a view of the
\* rectangle's size whenever it is inside, empty rectangles included.
C7_SubCanvasContainment ==
    (strict /\ call.op = "SubCanvas")
    => LET left == Min(call.args[1], call.args[3])
           right == Max(call.args[1], call.args[3])
           top == Min(call.args[2], call.args[4])
           bottom == Max(call.args[2], call.args[4])
           inside == /\ 0 <= left
                     /\ right <= canvas.Width
                     /\ 0 <= top
                     /\ bottom <= canvas.Height
       IN  /\ ~inside => status = "OutOfBounds"
           /\ inside => /\ status = "ok"
                        /\ sub.Width = right - left
                        /\ sub.Height = bottom - top

\* C9: at a coordinate inside the canvas, BlendPixel in OVERWRITE mode and
\* OverwritePixel in any mode succeed, Pixel then returns the colour given, and
\* every other position of the buffer is as before.
C9_OverwriteStoresExactly ==
    (/\ call.op \in {"BlendPixel", "OverwritePixel"}
     /\ call.op = "BlendPixel" => canvas.mode = "OVERWRITE"
     /\ ~Outside(canvas, call.args[1], call.args[2]))
    => /\ status = "ok"
       /\ Pixel(canvas, buf, call.args[1], call.args[2], Fault)
             = [status |-> "ok", ret |-> call.color]
       /\ \A i \in DOMAIN buf :
             i # canvas.Stride * call.args[2] + call.args[1] => buf[i] = pre[i]

\* C9 witness: OverwritePixel stored a colour in the second row of a padded
\* canvas whose mode is alpha compositing.
C9_Witness ==
    /\ call.op = "OverwritePixel"
    /\ status = "ok"
    /\ canvas.mode = "ALPHA_COMPOSITING"
    /\ canvas.Stride > canvas.Width
    /\ call.args[2] = 1
    /\ call.args[2] < canvas.Height
    /\ call.args[1] \in 0 .. (canvas.Width - 1)
    /\ buf # pre

\* a single application of the canvas's blend function
BlendOnce(c, color, old) ==
    IF c.mode = "OVERWRITE" THEN color
    ELSE IF c.mode = "ALPHA_COMPOSITING" THEN AlphaBlend(color, old, "zero")
    ELSE FastAlphaBlend(color, old)

\* C10: Fill blends the coordinates of the canvas row by row from (0, 0), each
\* one once, stopping early only if a blend itself dies; the positions it
\* blended hold one application of the blend function to what they held, every
\* other position of the buffer (the padding of each row too) is as before;
\* in OVERWRITE mode it completes and every pixel of the canvas is the colour.
C10_FillRowMajorOnce ==
    (call.op = "Fill" /\ call.who = "canvas")
    => LET W == canvas.Width
           H == canvas.Height
           Cell(k) == canvas.Stride * log[k][2] + log[k][1]
       IN  /\ status \in {"ok", "fault"}
           /\ status = "ok" => Len(log) = W * H
           /\ canvas.mode = "OVERWRITE" => status = "ok"
           /\ Len(log) > 0 => log[1] = <<0, 0>>
           /\ \A k \in 1 .. (Len(log) - 1) :
                 log[k + 1] = IF log[k][1] + 1 < W
                              THEN <<log[k][1] + 1, log[k][2]>>
                              ELSE <<0, log[k][2] + 1>>
           /\ \A k \in 1 .. Len(log) : log[k][1] < W /\ log[k][2] < H
           /\ \A i \in DOMAIN buf :
                 IF \E k \in 1 .. Len(log) : Cell(k) = i
                 THEN buf[i] = BlendOnce(canvas, call.color, pre[i])
                 ELSE buf[i] = pre[i]
           /\ canvas.mode = "OVERWRITE"
                => \A x \in 0 .. (W - 1), y \in 0 .. (H - 1) :
                      buf[canvas.Stride * y + x] = call.color

\* C10 witness: Fill completed on a padded canvas of at least 2 x 2 pixels in
\* alpha compositing mode and changed the buffer.
C10_Witness ==
    /\ call.op = "Fill"
    /\ status = "ok"
    /\ canvas.mode = "ALPHA_COMPOSITING"
    /\ canvas.Width >= 2
    /\ canvas.Height >= 2
    /\ canvas.Stride > canvas.Width
    /\ buf # pre

-----------------------------------------------------------------------------
(* Claims about views, under SpecView *)

\* C8: a view shares the buffer of its parent: Pixel(x, y) of the view is
\* Pixel(left + x, top + y) of the parent for every coordinate of the view, and
\* a write through the view at a coordinate of the view changes that pixel of
\* the parent and no other position of the buffer.
C8_ViewSharesStorage ==
    LET left == rect[1]
        top == rect[2]
        InView(x, y) == /\ 0 <= x
                        /\ x < rect[3] - rect[1]
                        /\ 0 <= y
                        /\ y < rect[4] - rect[2]
    IN  /\ sub.Width = rect[3] - rect[1]
        /\ sub.Height = rect[4] - rect[2]
        /\ \A x \in XCoords, y \in YCoords :
              InView(x, y)
              => /\ Pixel(sub, buf, x, y, Fault).status = "ok"
                 /\ Pixel(sub, buf, x, y, Fault)
                       = Pixel(canvas, buf, left + x, top + y, Fault)
                 /\ Pixel(sub, buf, x, y, Fault).ret
                       = buf[canvas.Stride * (top + y) + left + x]
        /\ (/\ call.op \in {"OverwritePixel", "BlendPixel"}
            /\ call.who = "sub"
            /\ InView(call.args[1], call.args[2]))
           => /\ status \in {"ok", "fault"}
              /\ \A i \in DOMAIN buf :
                    i # canvas.Stride * (top + call.args[2]) + left + call.args[1]
                    => buf[i] = pre[i]
              /\ call.op = "OverwritePixel"
                    => /\ status = "ok"
                       /\ Pixel(canvas, buf, left + call.args[1], top + call.args[2],
                                Fault).ret = call.color

\* C8 witness: OverwritePixel through a view that starts in the second column
\* and second row of a padded parent changed the buffer.
C8_Witness ==
    /\ call.op = "OverwritePixel"
    /\ call.who = "sub"
    /\ status = "ok"
    /\ rect[1] > 0
    /\ rect[2] > 0
    /\ canvas.Stride > canvas.Width
    /\ buf # pre

-----------------------------------------------------------------------------
(* Claims about figures, under SpecDraw *)

DrawOps == {"Line", "Polygon", "Fill", "FillRectangle"}

\* C5, as claimed: in a checked build a Line, Polygon, Fill or FillRectangle
\* that fails with OutOfBounds leaves the buffer as it was before the call.
C5_FailedDrawLeavesCanvas ==
    (strict /\ call.op \in DrawOps /\ status = "OutOfBounds") => buf = pre

\* the coordinates a Line or Polygon call has to blend, in order
Figure ==
    IF call.op = "Line"
    THEN Line(call.args[1], call.args[2], call.args[3], call.args[4])
    ELSE Polygon(call.args)

\* the number of coordinates of pts before the first one outside the canvas
RECURSIVE InsidePrefix(_)
InsidePrefix(pts) ==
    IF pts = << >> \/ Outside(canvas, Head(pts)[1], Head(pts)[2])
    THEN 0
    ELSE 1 + InsidePrefix(Tail(pts))

\* C5, amended: in a checked build Fill does not fail with OutOfBounds and a
\* FillRectangle that does leaves the buffer as it was; a Line or Polygon
\* blends its coordinates in order up to the first one outside the canvas, fails
\* there with OutOfBounds, and keeps what it has blended: only the positions
\* before that coordinate can differ from the buffer before the call (in
\* OVERWRITE mode they hold the colour).
C5_FailedDrawKeepsPrefix ==
    (strict /\ call.op \in DrawOps)
    => /\ call.op = "Fill" => status # "OutOfBounds"
       /\ (call.op = "FillRectangle" /\ status = "OutOfBounds")
             => (buf = pre /\ log = << >>)
       /\ call.op \in {"Line", "Polygon"}
             => LET n == InsidePrefix(Figure)
                    Drawn == { canvas.Stride * Figure[k][2] + Figure[k][1] : k \in 1 .. n }
                IN  /\ log = SubSeq(Figure, 1, n)
                    /\ status = IF n < Len(Figure) THEN "OutOfBounds" ELSE "ok"
                    /\ \A i \in DOMAIN buf :
                          /\ i \notin Drawn => buf[i] = pre[i]
                          /\ (i \in Drawn /\ canvas.mode = "OVERWRITE")
                                => buf[i] = call.color

\* C5 witness: a Line that starts inside the canvas and ends outside failed
\* with OutOfBounds after changing the buffer.
C5_Witness ==
    /\ strict
    /\ call.op = "Line"
    /\ status = "OutOfBounds"
    /\ ~Outside(canvas, call.args[1], call.args[2])
    /\ Outside(canvas, call.args[3], call.args[4])
    /\ log # << >>
    /\ buf # pre

-----------------------------------------------------------------------------
(* A program that draws one line on a canvas of LineWidth x LineHeight *)

InitLine ==
    /\ strict \in BOOLEAN
    /\ src = NoCanvas
    /\ \E mode \in BlendModes :
          canvas = Construct(0, LineWidth, LineHeight, LineWidth, mode).cv
    /\ buf = ImageBuffer(LineWidth * LineHeight)
    /\ sub = NoCanvas
    /\ rect = << >>
    /\ Fresh

NextLine ==
    /\ pc = "ready"
    /\ \E x0 \in -1 .. LineWidth, y0 \in -1 .. LineHeight,
          x1 \in -1 .. LineWidth, y1 \in -1 .. LineHeight, color \in Palette :
           CallLine(x0, y0, x1, y1, color)

SpecLine == InitLine /\ [][NextLine]_vars

-----------------------------------------------------------------------------
(* Claims about lines, under SpecLine *)

\* the elements of a sequence
Range(s) == { s[k] : k \in 1 .. Len(s) }

\* both endpoints of the last Line call are inside the canvas
EndpointsInside ==
    /\ call.op = "Line"
    /\ ~Outside(canvas, call.args[1], call.args[2])
    /\ ~Outside(canvas, call.args[3], call.args[4])

\* C11: for endpoints inside the canvas, Line from p0 to p1 succeeds and blends
\* exactly the set of coordinates that Line from p1 to p0 blends.
C11_LineSymmetric ==
    EndpointsInside
    => /\ status = "ok"
       /\ log # << >>
       /\ Range(log) = Range(Line(call.args[3], call.args[4], call.args[1], call.args[2]))

\* C11 witness: a shallow line given from its right end to its left end, one
\* row apart, was drawn.
C11_Witness ==
    /\ call.op = "Line"
    /\ status = "ok"
    /\ call.args = <<3, 1, 0, 0>>
    /\ Len(log) = 4

\* C12: for endpoints inside the canvas, Line blends both endpoints, each
\* coordinate it blends once, and nothing but what it blends changes; the line
\* from (0, 0) to (3, 0) blends (0, 0), (1, 0), (2, 0), (3, 0) and no other.
C12_LineEndpointsInclusive ==
    EndpointsInside
    => LET Cells == { canvas.Stride * p[2] + p[1] : p \in Range(log) }
       IN  /\ status = "ok"
           /\ <<call.args[1], call.args[2]>> \in Range(log)
           /\ <<call.args[3], call.args[4]>> \in Range(log)
           /\ Cardinality(Range(log)) = Len(log)
           /\ \A i \in DOMAIN buf :
                 buf[i] = IF i \in Cells
                          THEN BlendOnce(canvas, call.color, pre[i])
                          ELSE pre[i]
           /\ call.args = <<0, 0, 3, 0>>
                 => log = << <<0, 0>>, <<1, 0>>, <<2, 0>>, <<3, 0>> >>

\* C12 witness: the line from (0, 0) to (3, 0) was drawn in OVERWRITE mode and
\* changed the buffer.
C12_Witness ==
    /\ call.op = "Line"
    /\ status = "ok"
    /\ call.args = <<0, 0, 3, 0>>
    /\ canvas.mode = "OVERWRITE"
    /\ buf # pre

-----------------------------------------------------------------------------
(* A program that fills one triangle on a canvas of MaxWidth x MaxHeight *)

InitTri ==
    /\ strict \in BOOLEAN
    /\ src = NoCanvas
    /\ \E mode \in BlendModes :
          canvas = Construct(0, MaxWidth, MaxHeight, MaxWidth, mode).cv
    /\ buf = ImageBuffer(MaxWidth * MaxHeight)
    /\ sub = NoCanvas
    /\ rect = << >>
    /\ Fresh

CallFillTriangle(x0, y0, x1, y1, x2, y2, color) ==
    /\ pc = "ready"
    /\ \E dz \in DivZeroFor(canvas), ub \in UBFor,
          ov \in OverflowFor(<<x0, y0, x1, y1, x2, y2>>) :
          LET pts == FillTriangle(canvas, x0, y0, x1, y1, x2, y2, ov)
              r == BlendEach(canvas, buf, BeforeTrap(pts), << >>, color, dz, ub)
          IN  /\ status' = IF r.status = "ok" /\ BeforeTrap(pts) # pts
                            THEN "fault" ELSE r.status
              /\ buf' = r.buf
              /\ log' = r.log
    /\ call' = [op |-> "FillTriangle", who |-> "canvas",
                args |-> <<x0, y0, x1, y1, x2, y2>>, color |-> color]
    /\ ret' = NoPixel
    /\ pre' = buf
    /\ pc' = "done"
    /\ UNCHANGED <<strict, canvas, sub, rect, fg, bg, src, twin, threads, pool, guards>>

NextTri ==
    /\ pc = "ready"
    /\ \E x0 \in XCoords, y0 \in YCoords, x1 \in XCoords, y1 \in YCoords,
          x2 \in XCoords, y2 \in YCoords, color \in Palette :
           CallFillTriangle(x0, y0, x1, y1, x2, y2, color)

SpecTri == InitTri /\ [][NextTri]_vars

-----------------------------------------------------------------------------
(* Claims about triangles, under SpecTri *)

\* the three vertices of the last FillTriangle call lie on one line
Collinear ==
    (call.args[3] - call.args[1]) * (call.args[6] - call.args[2])
        = (call.args[5] - call.args[1]) * (call.args[4] - call.args[2])

\* C13: on a canvas of height at least 1, FillTriangle with three vertices on
\* one row, or on one line of any direction, succeeds and blends nothing.
C13_DegenerateDrawsNothing ==
    (call.op = "FillTriangle" /\ canvas.Height >= 1 /\ Collinear)
    => (status = "ok" /\ log = << >> /\ buf = pre)

\* C14: FillTriangle with three equal vertices, inside the canvas or outside,
\* succeeds in either build and blends at most one coordinate.
C14_CoincidentAtMostOnePixel ==
    (/\ call.op = "FillTriangle"
     /\ <<call.args[1], call.args[2]>> = <<call.args[3], call.args[4]>>
     /\ <<call.args[3], call.args[4]>> = <<call.args[5], call.args[6]>>)
    => /\ status = "ok"
       /\ Len(log) <= 1
       /\ Cardinality({ i \in DOMAIN buf : buf[i] # pre[i] }) <= 1

\* C14 witness: a checked build filled the triangle whose three vertices are
\* (-1, -1), outside the canvas, and returned.
C14_Witness ==
    /\ strict
    /\ call.op = "FillTriangle"
    /\ call.args = <<-1, -1, -1, -1, -1, -1>>
    /\ status = "ok"

\* the three vertices of the last FillTriangle call
Vertices ==
    { <<call.args[1], call.args[2]>>, <<call.args[3], call.args[4]>>,
      <<call.args[5], call.args[6]>> }

\* C28: FillTriangle with three vertices inside the canvas that are not on one
\* line (a vertex on row 0 or on the last row, or the lowest vertex one row
\* below the middle one, included) blends each of the three vertex coordinates,
\* and blends no coordinate twice.
C28_VerticesPainted ==
    (/\ call.op = "FillTriangle"
     /\ ~Collinear
     /\ \A v \in Vertices : IsWithinBounds(canvas, v[1], v[2])
     /\ status = "ok")
    => /\ \A v \in Vertices : \E k \in 1 .. Len(log) : log[k] = v
       /\ \A j, k \in 1 .. Len(log) : log[j] = log[k] => j = k

-----------------------------------------------------------------------------
(* A program that copies or rotates a source canvas into a destination *)

\* a destination whose every third pixel is transparent, the others opaque
MixedPixel(i) == IF i % 3 = 2 THEN Transparent ELSE CombineRGBA(i + 1, 2 * i, 0, 255)

\* the pixels of a sprite: the first transparent, then translucent and opaque
SpritePixel(i) ==
    CombineRGBA(10 * (i + 1), 200, i, IF i = 0 THEN 0 ELSE IF i % 2 = 1 THEN 128 ELSE 255)

\* an empty source, small ones, and one as large as the destination
SrcSizes ==
    { <<0, 1>>, <<1, 2>>, <<2, 2>>, <<MaxWidth + 1, MaxHeight>>, <<CopyWidth, CopyHeight>> }

\* corners given to Copy: before, on and past each edge of the destination
CornerXs == {-1, 0, 1, 2, CopyWidth, CopyWidth + 1}
CornerYs == {-1, 0, 1, 2, CopyHeight, CopyHeight + 1}

\* the destination's pixels come first in buf, the source's after them
InitCopy ==
    /\ strict \in BOOLEAN
    /\ \E d \in { <<CopyWidth, CopyHeight>> }, z \in SrcSizes, mode \in BlendModes :
          /\ canvas = Construct(0, d[1], d[2], d[1], mode).cv
          /\ src = Construct(d[1] * d[2], z[1], z[2], z[1], "OVERWRITE").cv
          /\ buf = [i \in 0 .. (d[1] * d[2] + z[1] * z[2] - 1) |->
                       IF i < d[1] * d[2] THEN MixedPixel(i)
                       ELSE SpritePixel(i - d[1] * d[2])]
    /\ sub = NoCanvas
    /\ rect = << >>
    /\ Fresh

CallCopy(left, top, right, bottom) ==
    /\ pc = "ready"
    /\ \E dz \in DivZeroFor(canvas), ub \in UBFor :
          LET r == Copy(src, canvas, buf, left, top, right, bottom, dz, ub)
          IN  /\ status' = r.status
              /\ buf' = r.buf
              /\ log' = r.log
    /\ call' = [op |-> "Copy", who |-> "canvas", args |-> <<left, top, right, bottom>>,
                color |-> NoPixel]
    /\ ret' = NoPixel
    /\ pre' = buf
    /\ pc' = "done"
    /\ UNCHANGED <<strict, canvas, sub, rect, fg, bg, src, twin, threads, pool, guards>>

CallRotate(src_origin_x, src_origin_y, dst_origin_x, dst_origin_y, turn) ==
    /\ pc = "ready"
    /\ \E dz \in DivZeroFor(canvas), ub \in UBFor :
          LET r == Rotate(src, canvas, buf, src_origin_x, src_origin_y,
                          dst_origin_x, dst_origin_y, turn, dz, ub)
          IN  /\ status' = r.status
              /\ buf' = r.buf
              /\ log' = r.log
    /\ call' = [op |-> "Rotate", who |-> "canvas",
                args |-> <<src_origin_x, src_origin_y, dst_origin_x, dst_origin_y, turn>>,
                color |-> NoPixel]
    /\ ret' = NoPixel
    /\ pre' = buf
    /\ pc' = "done"
    /\ UNCHANGED <<strict, canvas, sub, rect, fg, bg, src, twin, threads, pool, guards>>

NextCopy ==
    \/ /\ pc = "ready"
       /\ \E left \in CornerXs, top \in CornerYs, right \in CornerXs, bottom \in CornerYs :
              CallCopy(left, top, right, bottom)
    \/ /\ pc = "ready"
       /\ \E src_origin \in {0, 1}, dst_origin_x \in -2 .. CopyWidth,
             dst_origin_y \in -2 .. CopyHeight, turn \in QuarterTurns :
              CallRotate(src_origin, src_origin, dst_origin_x, dst_origin_y, turn)

SpecCopy == InitCopy /\ [][NextCopy]_vars

-----------------------------------------------------------------------------
(* Claims about Copy and Rotate, under SpecCopy *)

\* the corners of the last Copy call, sorted
CopyLeft == Min(call.args[1], call.args[3])
CopyTop == Min(call.args[2], call.args[4])
CopyRight == Max(call.args[1], call.args[3])
CopyBottom == Max(call.args[2], call.args[4])

\* the destination coordinates inside both the rectangle and the destination
CopyTargets ==
    { p \in (0 .. (canvas.Width - 1)) \X (0 .. (canvas.Height - 1)) :
        /\ CopyLeft <= p[1]
        /\ p[1] < CopyRight
        /\ CopyTop <= p[2]
        /\ p[2] < CopyBottom }

\* the pixel of the source at (x, y), and of the destination, in buffer b
SrcAt(b, x, y) == b[src.off + src.Stride * y + x]
DstAt(b, x, y) == b[canvas.Stride * y + x]

\* floor(rel * extent / target)
Sample(rel, extent, target) == (rel * extent) \div target

\* C15: in OVERWRITE mode, Copy with left < right and top < bottom sets every
\* destination pixel (x, y) of the rectangle that lies in the destination to
\* the source pixel at (floor((x - left) * src.Width / (right - left)),
\* floor((y - top) * src.Height / (bottom - top))) and changes nothing else;
\* with a target of the source's size that is the source itself, and a 2 x 2
\* source copied to a 4 x 4 target gives each source pixel a 2 x 2 block.
C15_CopySamplesNearest ==
    (/\ call.op = "Copy"
     /\ canvas.mode = "OVERWRITE"
     /\ ~Empty(src)
     /\ call.args[1] < call.args[3]
     /\ call.args[2] < call.args[4])
    => LET left == call.args[1]
           top == call.args[2]
           tw == call.args[3] - call.args[1]
           th == call.args[4] - call.args[2]
       IN  /\ status = "ok"
           /\ \A p \in CopyTargets :
                 DstAt(buf, p[1], p[2])
                    = SrcAt(pre, Sample(p[1] - left, src.Width, tw),
                                 Sample(p[2] - top, src.Height, th))
           /\ \A i \in DOMAIN buf :
                 (\A p \in CopyTargets : i # canvas.Stride * p[2] + p[1])
                 => buf[i] = pre[i]
           /\ (tw = src.Width /\ th = src.Height)
                 => \A p \in CopyTargets :
                       DstAt(buf, p[1], p[2]) = SrcAt(pre, p[1] - left, p[2] - top)
           /\ (tw = 2 * src.Width /\ th = 2 * src.Height)
                 => \A p \in CopyTargets :
                       DstAt(buf, p[1], p[2])
                          = SrcAt(pre, (p[1] - left) \div 2, (p[2] - top) \div 2)

\* C15 witness: a 2 x 2 source was copied to the whole of a 4 x 4 destination.
C15_Witness ==
    /\ call.op = "Copy"
    /\ status = "ok"
    /\ canvas.mode = "OVERWRITE"
    /\ src.Width = 2
    /\ src.Height = 2
    /\ canvas.Width = 4
    /\ canvas.Height = 4
    /\ call.args = <<0, 0, 4, 4>>
    /\ buf # pre

\* what Copy with the given corners makes of the buffer before the last call
CopyOf(left, top, right, bottom) ==
    Copy(src, canvas, pre, left, top, right, bottom, "zero", Fault).buf

\* C16: in OVERWRITE mode the image written by Copy with the x corners
\* exchanged is the left-right mirror image, within the same rectangle, of the
\* image written with the corners in order, and the image written with the y
\* corners exchanged is its top-bottom mirror image, whatever the sizes of the
\* source and of the target.
C16_ReversedCornersMirror ==
    (/\ call.op = "Copy"
     /\ canvas.mode = "OVERWRITE"
     /\ ~Empty(src)
     /\ call.args[1] < call.args[3]
     /\ call.args[2] < call.args[4]
     /\ CopyLeft >= 0
     /\ CopyTop >= 0
     /\ CopyRight <= canvas.Width
     /\ CopyBottom <= canvas.Height)
    => LET flipX == CopyOf(call.args[3], call.args[2], call.args[1], call.args[4])
           flipY == CopyOf(call.args[1], call.args[4], call.args[3], call.args[2])
       IN  \A p \in CopyTargets :
              /\ DstAt(flipX, p[1], p[2])
                    = DstAt(buf, CopyLeft + CopyRight - 1 - p[1], p[2])
              /\ DstAt(flipY, p[1], p[2])
                    = DstAt(buf, p[1], CopyTop + CopyBottom - 1 - p[2])

C18_RotateZeroIsCopy ==
    (/\ call.op = "Rotate"
     /\ call.args[1] = 0
     /\ call.args[2] = 0
     /\ call.args[5] = 0)
    => \E dz \in DivZeroFor(canvas) :
          LET r == Copy(src, canvas, pre, call.args[3], call.args[4],
                        call.args[3] + src.Width, call.args[4] + src.Height, dz, Fault)
          IN  /\ buf = r.buf
              /\ status = r.status
              /\ log = r.log

\* C18 witness: a 2 x 2 source was rotated by 0 to a place that is partly
\* outside the destination, in alpha compositing mode.
C18_Witness ==
    /\ call.op = "Rotate"
    /\ status = "ok"
    /\ call.args = <<0, 0, -1, CopyHeight - 1, 0>>
    /\ canvas.mode = "ALPHA_COMPOSITING"
    /\ canvas.Height = CopyHeight
    /\ src.Width = 2
    /\ src.Height = 2
    /\ Len(log) = 1
    /\ buf # pre

\* the destination range of the last Rotate call, clipped to the destination
RotatedBox ==
    RotateRange(src, canvas, call.args[1], call.args[2], call.args[3],
                call.args[4], call.args[5])

\* C29: in OVERWRITE mode, Rotate by one, two or three quarter turns about
\* the source origin (0, 0), into a destination that contains the whole
\* rotated bounding box, reads every pixel of the source for exactly one
\* destination pixel and stores no sentinel (a sample outside the source)
\* inside the box.
C29_QuarterTurnLosesNoPixel ==
    (/\ call.op = "Rotate"
     /\ call.args[5] \in {1, 2, 3}
     /\ call.args[1] = 0
     /\ call.args[2] = 0
     /\ canvas.mode = "OVERWRITE"
     /\ src.Width >= 1
     /\ src.Height >= 1
     /\ RotatedBox[3] - RotatedBox[1] >= 1
     /\ (RotatedBox[3] - RotatedBox[1]) * (RotatedBox[4] - RotatedBox[2])
            = src.Width * src.Height)
    => /\ status = "ok"
       /\ \A x \in 0 .. (src.Width - 1), y \in 0 .. (src.Height - 1) :
             Cardinality({ k \in 1 .. Len(log) :
                             log[k][3] = x /\ log[k][4] = y }) = 1
       /\ \A k \in 1 .. Len(log) : IsWithinBounds(src, log[k][3], log[k][4])

-----------------------------------------------------------------------------
(* One program in two builds, with and without CHERRY_CHECK_BOUNDS, making  *)
(* the same valid calls.  The build with the checks works on buf and sub,   *)
(* the other on twin.buf and twin.sub; strict tells which of the two builds *)
(* makes the next step.                                                     *)

\* what a call leaves: its outcome, the buffer, the view, the pixel it returned
\* and the coordinates it blended
Outcome(st, b, v, r, l) ==
    [status |-> st, buf |-> b, sub |-> v, ret |-> r, log |-> l]

\* a call that draws: the buffer and the coordinates come from r
Drawn(r, v) == Outcome(r.status, r.buf, v, NoPixel, r.log)

\* a call that stores one pixel
Stored(r, v) == Outcome(r.status, r.buf, v, NoPixel, << >>)

\* the call cl made on canvas c, its view v and source s over buffer b
Exec(cl, c, v, s, b, dz, ub) ==
    IF cl.op = "SubCanvas"
    THEN Outcome(SubCanvas(c, cl.args[1], cl.args[2], cl.args[3], cl.args[4]).status, b,
                 SubCanvas(c, cl.args[1], cl.args[2], cl.args[3], cl.args[4]).cv,
                 NoPixel, << >>)
    ELSE IF cl.op = "Pixel"
    THEN Outcome(Pixel(IF cl.who = "canvas" THEN c ELSE v, b, cl.args[1], cl.args[2],
                       ub).status, b, v,
                 Pixel(IF cl.who = "canvas" THEN c ELSE v, b, cl.args[1], cl.args[2],
                       ub).ret, << >>)
    ELSE IF cl.op = "OverwritePixel"
    THEN Stored(OverwritePixel(IF cl.who = "canvas" THEN c ELSE v, b, cl.args[1],
                               cl.args[2], cl.color, ub), v)
    ELSE IF cl.op = "BlendPixel"
    THEN Drawn(BlendEach(IF cl.who = "canvas" THEN c ELSE v, b,
                         << <<cl.args[1], cl.args[2]>> >>, << >>, cl.color, dz, ub), v)
    ELSE IF cl.op = "Fill"
    THEN Drawn(Fill(IF cl.who = "canvas" THEN c ELSE v, b, cl.color, dz, ub), v)
    ELSE IF cl.op = "Line"
    THEN Drawn(BlendEach(c, b, Line(cl.args[1], cl.args[2], cl.args[3], cl.args[4]),
                         << >>, cl.color, dz, ub), v)
    ELSE Drawn(Copy(s, c, b, cl.args[1], cl.args[2], cl.args[3], cl.args[4], dz, ub), v)

\* the coordinates of canvas c
Coords(c) == (0 .. (c.Width - 1)) \X (0 .. (c.Height - 1))

\* the calls with valid arguments that the program can make next
ValidCalls ==
    LET On(op, who, args, color) ==
            [op |-> op, who |-> who, args |-> args, color |-> color]
    IN  { On("SubCanvas", "canvas", <<x0, y0, x1, y1>>, NoPixel) :
            x0 \in IF sub = NoCanvas THEN 0 .. canvas.Width ELSE {},
            y0 \in 0 .. canvas.Height, x1 \in {0, canvas.Width}, y1 \in {0, canvas.Height} }
        \cup { On("Pixel", who, p, NoPixel) :
                 who \in Targets, p \in Coords(canvas) \cap Coords(sub) }
        \cup { On("Pixel", "canvas", p, NoPixel) : p \in Coords(canvas) }
        \cup { On(op, who, p, color) :
                 op \in {"OverwritePixel", "BlendPixel"}, who \in Targets,
                 p \in Coords(canvas) \cap Coords(sub), color \in Palette }
        \cup { On(op, "canvas", p, color) :
                 op \in {"OverwritePixel", "BlendPixel"}, p \in Coords(canvas),
                 color \in Palette }
        \cup { On("Fill", who, << >>, color) : who \in Targets, color \in Palette }
        \cup { On("Line", "canvas", <<p[1], p[2], q[1], q[2]>>, HalfRed) :
                 p \in Coords(canvas), q \in Coords(canvas) }
        \cup { On("Copy", "canvas", <<x0, y0, x1, y1>>, NoPixel) :
                 x0 \in {-1, 1}, y0 \in {0}, x1 \in {MaxWidth + 1}, y1 \in {-1, 1} }

InitTwin ==
    /\ strict = TRUE
    /\ \E stride \in Strides(MaxWidth), mode \in BlendModes :
          /\ canvas = Construct(0, MaxWidth, MaxHeight, stride, mode).cv
          /\ src = Construct(stride * MaxHeight, 1, 2, 1, "OVERWRITE").cv
          /\ buf = [i \in 0 .. (stride * MaxHeight + 1) |->
                       IF i < stride * MaxHeight THEN MixedPixel(i)
                       ELSE SpritePixel(i - stride * MaxHeight)]
    /\ sub = NoCanvas
    /\ rect = << >>
    /\ pc = "ready"
    /\ call = [op |-> "init"]
    /\ status = "init"
    /\ ret = NoPixel
    /\ log = << >>
    /\ pre = buf
    /\ fg = NoPixel
    /\ bg = NoPixel
    /\ twin = [NoTwin EXCEPT !.buf = buf]
    /\ threads = << >>
    /\ pool = NoPool
    /\ guards = NoGuards

\* the build with the checks makes the call
CheckedCall(cl) ==
    /\ pc = "ready"
    /\ strict
    /\ twin.n < MaxCalls
    /\ \E dz \in DivZeroFor(canvas), ub \in UBFor :
          LET r == Exec(cl, canvas, sub, src, buf, dz, ub)
          IN  /\ status' = r.status
              /\ buf' = r.buf
              /\ sub' = r.sub
              /\ ret' = r.ret
              /\ log' = r.log
    /\ call' = cl
    /\ pre' = buf
    /\ strict' = FALSE
    /\ pc' = "twin"
    /\ UNCHANGED <<canvas, rect, fg, bg, src, twin, threads, pool, guards>>

\* the build without the checks makes the same call; a call that fails in
\* either build ends the program
TrustingCall ==
    /\ pc = "twin"
    /\ ~strict
    /\ \E dz \in DivZeroFor(canvas), ub \in UBFor :
          LET r == Exec(call, canvas, twin.sub, src, twin.buf, dz, ub)
          IN  /\ twin' = [buf |-> r.buf, sub |-> r.sub, status |-> r.status,
                          ret |-> r.ret, log |-> r.log, n |-> twin.n + 1]
              /\ pc' = IF status = "ok" /\ r.status = "ok" THEN "ready" ELSE "done"
    /\ strict' = TRUE
    /\ UNCHANGED <<buf, canvas, sub, rect, call, status, ret, log, pre, fg, bg, src,
                   threads, pool, guards>>

NextTwin ==
    \/ /\ pc = "ready"
       /\ \E cl \in ValidCalls : CheckedCall(cl)
    \/ TrustingCall

SpecTwin == InitTwin /\ [][NextTwin]_vars

-----------------------------------------------------------------------------
(* Claims about the two builds, under SpecTwin *)

\* C19: after every sequence of calls with valid arguments, made by both
\* builds, the two have blended the same coordinates of the same canvases,
\* hold identical buffers and views, and have returned the same pixels with
\* the same outcome.
C19_BuildsAgree ==
    (pc \in {"ready", "done"} /\ twin.n > 0)
    => /\ twin.status = status
       /\ twin.buf = buf
       /\ twin.sub = sub
       /\ twin.ret = ret
       /\ twin.log = log

-----------------------------------------------------------------------------
(* A program that fills one canvas from several threads: the rows are split *)
(* into bands, each band is a SubCanvas, and each thread runs Fill on its   *)
(* band.  A thread's BlendPixel is three steps, the read of the pixel, the  *)
(* blend and the store, and the steps of the threads interleave.            *)

\* the rows at which the canvas is cut, in increasing order
SortedCuts(S) ==
    CHOOSE f \in [1 .. Cardinality(S) -> S] :
        \A i \in 1 .. Cardinality(S), j \in 1 .. Cardinality(S) : i < j => f[i] < f[j]

\* bands that each begin one row early, on the last row of the band above
Bands_Overlapping(c, cuts) ==
    LET tops == <<0>> \o [i \in 1 .. Len(cuts) |-> cuts[i] - 1]
        bottoms == Append(cuts, c.Height)
    IN  [i \in 1 .. (Len(cuts) + 1) |->
            SubCanvas(c, 0, tops[i], c.Width, bottoms[i]).cv]

\* the bands of canvas c cut at the rows cuts: SubCanvas(0, top, Width, bottom)
Bands(c, cuts) ==
    LET tops == <<0>> \o cuts
        bottoms == Append(cuts, c.Height)
    IN  [i \in 1 .. (Len(cuts) + 1) |->
            SubCanvas(c, 0, tops[i], c.Width, bottoms[i]).cv]

\* a thread at the start of Fill on the band cv
Worker(cv) ==
    [cv |-> cv, k |-> 1, phase |-> "read", background |-> NoPixel, result |-> NoPixel]

\* the coordinate that thread t is blending
Current(t) == FillPoints(threads[t].cv)[threads[t].k]

InitPar ==
    /\ strict \in BOOLEAN
    /\ \E stride \in Strides(MaxWidth), mode \in BlendModes, color \in Palette,
          S \in SUBSET (1 .. (ParHeight - 1)) :
          /\ S # {}
          /\ Cardinality(S) < Workers
          /\ canvas = Construct(0, MaxWidth, ParHeight, stride, mode).cv
          /\ buf = [i \in 0 .. (stride * ParHeight - 1) |-> MixedPixel(i)]
          /\ call = [op |-> "Fill", who |-> "bands", args |-> SortedCuts(S),
                     color |-> color]
          /\ threads = [i \in 1 .. (Cardinality(S) + 1) |->
                           Worker(Bands(canvas, SortedCuts(S))[i])]
    /\ sub = NoCanvas
    /\ src = NoCanvas
    /\ rect = << >>
    /\ pc = "ready"
    /\ status = "init"
    /\ ret = NoPixel
    /\ log = << >>
    /\ pre = buf
    /\ fg = NoPixel
    /\ bg = NoPixel
    /\ twin = NoTwin
    /\ pool = NoPool
    /\ guards = NoGuards

\* BlendPixel up to the read of the pixel; BlendOverwrite reads nothing
ThreadRead(t) ==
    /\ pc = "ready"
    /\ threads[t].phase = "read"
    /\ LET w == threads[t]
           r == Pixel(w.cv, buf, Current(t)[1], Current(t)[2], Fault)
       IN  IF r.status # "ok"
           THEN /\ status' = r.status
                /\ pc' = "done"
                /\ UNCHANGED threads
           ELSE /\ threads' =
                      [threads EXCEPT ![t] =
                          IF w.cv.mode = "OVERWRITE"
                          THEN [w EXCEPT !.phase = "write", !.result = call.color]
                          ELSE [w EXCEPT !.phase = "blend", !.background = r.ret]]
                /\ UNCHANGED <<status, pc>>
    /\ UNCHANGED <<strict, buf, canvas, sub, rect, call, ret, log, pre, fg, bg, src, twin, pool, guards>>

\* the blend of the colour with the pixel that was read; a division that
\* traps ends the program
ThreadBlend(t) ==
    /\ pc = "ready"
    /\ threads[t].phase = "blend"
    /\ \E dz \in DivZeroFor(threads[t].cv) :
          LET w == threads[t]
              v == IF w.cv.mode = "ALPHA_COMPOSITING"
                   THEN AlphaBlend(call.color, w.background, dz)
                   ELSE FastAlphaBlend(call.color, w.background)
          IN  IF v = Fault
              THEN /\ status' = "fault"
                   /\ pc' = "done"
                   /\ UNCHANGED threads
              ELSE /\ threads' = [threads EXCEPT ![t] =
                                     [w EXCEPT !.phase = "write", !.result = v]]
                   /\ UNCHANGED <<status, pc>>
    /\ UNCHANGED <<strict, buf, canvas, sub, rect, call, ret, log, pre, fg, bg, src, twin, pool, guards>>

\* the store of the result and the step of Fill's loops; the program is done
\* when every thread has left its loops.  log keeps the order of the threads'
\* first and last stores.
ThreadWrite(t) ==
    /\ pc = "ready"
    /\ threads[t].phase = "write"
    /\ LET w == threads[t]
           r == OverwritePixel(w.cv, buf, Current(t)[1], Current(t)[2], w.result, Fault)
           last == w.k = Len(FillPoints(w.cv))
           others == \A u \in DOMAIN threads : u # t => threads[u].phase = "done"
       IN  /\ buf' = r.buf
           /\ log' = log \o (IF w.k = 1 THEN << <<t, "first">> >> ELSE << >>)
                         \o (IF last THEN << <<t, "last">> >> ELSE << >>)
           /\ threads' = [threads EXCEPT ![t] =
                             [w EXCEPT !.k = w.k + 1,
                                       !.phase = IF last THEN "done" ELSE "read"]]
           /\ status' = IF r.status # "ok" THEN r.status
                        ELSE IF last /\ others THEN "ok" ELSE status
           /\ pc' = IF r.status # "ok" \/ (last /\ others) THEN "done" ELSE pc
    /\ UNCHANGED <<strict, canvas, sub, rect, call, ret, pre, fg, bg, src, twin, pool, guards>>

NextPar ==
    \/ /\ pc = "ready"
       /\ \E t \in DOMAIN threads : ThreadRead(t)
    \/ /\ pc = "ready"
       /\ \E t \in DOMAIN threads : ThreadBlend(t)
    \/ /\ pc = "ready"
       /\ \E t \in DOMAIN threads : ThreadWrite(t)

SpecPar == InitPar /\ [][NextPar]_vars

-----------------------------------------------------------------------------
(* Claims about the threads, under SpecPar *)

\* the Fill of the whole canvas by one thread, from the buffer before the call
Sequential(dz) == Fill(canvas, pre, call.color, dz, Fault)

\* C20: when the threads have filled their bands, whatever the order of their
\* reads, blends and stores, the buffer is the one that a single Fill of the
\* whole canvas leaves, in each blend mode; on the way every position holds
\* what it held or what the single Fill leaves there; and the threads stop
\* early only on a blend on which the single Fill can stop too.
C20_BandsFillAsOne ==
    LET one == Sequential("zero")
    IN  /\ status \in {"init", "ok", "fault"}
        /\ \A i \in DOMAIN buf : buf[i] = pre[i] \/ buf[i] = one.buf[i]
        /\ (pc = "done" /\ status = "ok")
             => /\ one.status = "ok"
                /\ buf = one.buf
                /\ \A t \in DOMAIN threads :
                      threads[t].k = Len(FillPoints(threads[t].cv)) + 1
        /\ (pc = "done" /\ status = "fault") => Sequential("trap").status = "fault"
        /\ canvas.mode = "OVERWRITE" => status # "fault"

\* C20 witness: two or more threads are done with a padded canvas in alpha
\* compositing mode; the second thread stored first, the first thread stored
\* its first pixel before the second had stored its last, and the buffer has
\* changed.
C20_Witness ==
    /\ pc = "done"
    /\ status = "ok"
    /\ Len(threads) >= 2
    /\ canvas.mode = "ALPHA_COMPOSITING"
    /\ canvas.Stride > canvas.Width
    /\ buf # pre
    /\ log[1] = <<2, "first">>
    /\ \E j \in 1 .. Len(log), k \in 1 .. Len(log) :
          /\ j < k
          /\ log[j] = <<1, "first">>
          /\ log[k] = <<2, "last">>

-----------------------------------------------------------------------------
(* Claims about the order of SubCanvas's corners, under Spec *)

\* C23: SubCanvas does not depend on the order of its corners: called with
\* (a,b,c,d), (c,d,a,b), (c,b,a,d) or (a,d,c,b) it fails in all four cases or
\* returns in all four a view of the same offset, width, height and stride.
C23_CornerOrderIrrelevant ==
    call.op = "SubCanvas"
    => LET a == call.args[1]
           b == call.args[2]
           c == call.args[3]
           d == call.args[4]
           Same(r) ==
               /\ r.status = status
               /\ status = "ok" =>
                     /\ r.cv.off = sub.off
                     /\ r.cv.Width = sub.Width
                     /\ r.cv.Height = sub.Height
                     /\ r.cv.Stride = sub.Stride
       IN  /\ status \in {"ok", "OutOfBounds"}
           /\ Same(SubCanvas(canvas, c, d, a, b))
           /\ Same(SubCanvas(canvas, c, b, a, d))
           /\ Same(SubCanvas(canvas, a, d, c, b))

\* C23 witness: a view one pixel wide and two high, asked for from its bottom
\* right corner to its top left one
C23_Witness ==
    /\ call.op = "SubCanvas"
    /\ call.args = <<2, 2, 1, 0>>
    /\ status = "ok"
    /\ sub.off = 1
    /\ sub.Width = 1
    /\ sub.Height = 2

-----------------------------------------------------------------------------
(* Claims about Polygon, under SpecDraw *)

\* the lines vertices[i] -> vertices[(i+1) mod n] for i = 0 .. n-1, one after
\* the other
ClosedPath(vertices) ==
    LET n == Len(vertices)
        path[i \in 0 .. n] ==
            IF i = 0 THEN << >>
            ELSE path[i - 1] \o Line(vertices[i][1], vertices[i][2],
                                     vertices[(i % n) + 1][1], vertices[(i % n) + 1][2])
    IN  path[n]

-----------------------------------------------------------------------------
(* The buffer pool.  A block is [id, size]; free is the free list in its    *)
(* order, used the borrowed blocks, owned the number of blocks allocated.   *)

\* s without its element i
Without(s, i) == SubSeq(s, 1, i - 1) \o SubSeq(s, i + 1, Len(s))

\* the position of the first block of free that holds pixelCount pixels, or 0
FirstFit(free, pixelCount) ==
    IF \E i \in 1 .. Len(free) : free[i].size >= pixelCount
    THEN CHOOSE i \in 1 .. Len(free) :
            /\ free[i].size >= pixelCount
            /\ \A j \in 1 .. (i - 1) : free[j].size < pixelCount
    ELSE 0

\* the block a new allocation of pixelCount pixels makes
NewBlock(p, pixelCount) == [id |-> p.owned + 1, size |-> pixelCount]

\* a borrowBuffer that allocates whatever the free list holds
BorrowBuffer_AlwaysAllocates(p, pixelCount) ==
    [block |-> NewBlock(p, pixelCount),
     pool |-> [free |-> p.free, used |-> Append(p.used, NewBlock(p, pixelCount)),
               owned |-> p.owned + 1]]

\* borrowBuffer: the first fit of the free list moves to used, else a new
\* block is allocated and recorded as used
BorrowBuffer(p, pixelCount) ==
    IF FirstFit(p.free, pixelCount) > 0
    THEN [block |-> p.free[FirstFit(p.free, pixelCount)],
          pool |-> [free |-> Without(p.free, FirstFit(p.free, pixelCount)),
                    used |-> Append(p.used, p.free[FirstFit(p.free, pixelCount)]),
                    owned |-> p.owned]]
    ELSE [block |-> NewBlock(p, pixelCount),
          pool |-> [free |-> p.free, used |-> Append(p.used, NewBlock(p, pixelCount)),
                    owned |-> p.owned + 1]]

\* returnBuffer of the borrowed block used[k]: it moves back to free with its
\* recorded size; at is the number of free blocks it is put behind
ReturnBuffer(p, k, at) ==
    [free |-> SubSeq(p.free, 1, at) \o << p.used[k] >> \o SubSeq(p.free, at + 1, Len(p.free)),
     used |-> Without(p.used, k),
     owned |-> p.owned]

InitPool ==
    /\ strict = FALSE
    /\ buf = << >>
    /\ canvas = NoCanvas
    /\ sub = NoCanvas
    /\ src = NoCanvas
    /\ rect = << >>
    /\ Fresh

\* log keeps the calls made so far: the request or the handle, the block
\* handed out or taken back, and the pool before the call
CallBorrowBuffer(pixelCount) ==
    /\ pc = "ready"
    /\ pool' = BorrowBuffer(pool, pixelCount).pool
    /\ call' = [op |-> "BorrowBuffer", who |-> "pool", args |-> <<pixelCount>>,
                color |-> NoPixel]
    /\ log' = Append(log, [op |-> "BorrowBuffer", arg |-> pixelCount,
                           block |-> BorrowBuffer(pool, pixelCount).block,
                           before |-> pool])
    /\ status' = "ok"
    /\ pc' = IF Len(log) + 1 >= PoolCalls THEN "done" ELSE "ready"
    /\ UNCHANGED <<strict, buf, canvas, sub, rect, ret, pre, fg, bg, src, twin, threads,
                   guards>>

CallReturnBuffer(k, at) ==
    /\ pc = "ready"
    /\ k \in 1 .. Len(pool.used)
    /\ at \in 0 .. Len(pool.free)
    /\ pool' = ReturnBuffer(pool, k, at)
    /\ call' = [op |-> "ReturnBuffer", who |-> "pool", args |-> <<pool.used[k].id>>,
                color |-> NoPixel]
    /\ log' = Append(log, [op |-> "ReturnBuffer", arg |-> pool.used[k].id,
                           block |-> pool.used[k], before |-> pool])
    /\ status' = "ok"
    /\ pc' = IF Len(log) + 1 >= PoolCalls THEN "done" ELSE "ready"
    /\ UNCHANGED <<strict, buf, canvas, sub, rect, ret, pre, fg, bg, src, twin, threads,
                   guards>>

NextPool ==
    \/ /\ pc = "ready"
       /\ \E pixelCount \in 1 .. MaxBlock : CallBorrowBuffer(pixelCount)
    \/ /\ pc = "ready"
       /\ \E k \in 1 .. PoolCalls, at \in 0 .. PoolCalls : CallReturnBuffer(k, at)

SpecPool == InitPool /\ [][NextPool]_vars

-----------------------------------------------------------------------------
(* Claims about the buffer pool, under SpecPool *)

\* calls i, i+1, i+2 are borrowBuffer(n), returnBuffer of the block it handed
\* out, and borrowBuffer(m) with m <= n
BorrowReturnBorrow(i) ==
    /\ i + 2 <= Len(log)
    /\ log[i].op = "BorrowBuffer"
    /\ log[i + 1].op = "ReturnBuffer"
    /\ log[i + 1].block = log[i].block
    /\ log[i + 2].op = "BorrowBuffer"
    /\ log[i + 2].arg <= log[i].arg

\* the number of blocks the pool owned after call i
OwnedAfter(i) == IF i = Len(log) THEN pool.owned ELSE log[i + 1].before.owned

\* C25 as stated: after borrowBuffer(n) and returnBuffer of its block, a
\* following borrowBuffer(m) with m <= n hands out the returned block and the
\* number of blocks the pool owns does not grow.
C25_ReturnedBlockReused ==
    \A i \in 1 .. Len(log) :
        BorrowReturnBorrow(i)
        => /\ log[i + 2].block = log[i].block
           /\ OwnedAfter(i + 2) = OwnedAfter(i + 1)

\* C25: after borrowBuffer(n) and returnBuffer of its block, a following
\* borrowBuffer(m) with m <= n allocates no new block: the number of blocks
\* the pool owns does not grow and the block handed out is one that was free,
\* of capacity m or more; it is the returned block whenever no free block
\* before it in the free list holds m pixels, as when the returned block is
\* the only free one.
C25_NoNewBlockAfterReturn ==
    \A i \in 1 .. Len(log) :
        BorrowReturnBorrow(i)
        => LET free == log[i + 2].before.free
               at == CHOOSE k \in 1 .. Len(free) : free[k] = log[i].block
           IN  /\ OwnedAfter(i + 2) = OwnedAfter(i + 1)
               /\ \E k \in 1 .. Len(free) : free[k] = log[i + 2].block
               /\ log[i + 2].block.size >= log[i + 2].arg
               /\ (\A j \in 1 .. (at - 1) : free[j].size < log[i + 2].arg)
                     => log[i + 2].block = log[i].block

\* C25 witness: on a new pool, borrowBuffer(MaxBlock), the return of its
\* block and borrowBuffer(1), which hands out that block again
C25_Witness ==
    /\ Len(log) >= 3
    /\ BorrowReturnBorrow(1)
    /\ log[1].arg = MaxBlock
    /\ log[3].arg = 1
    /\ log[3].block = log[1].block
    /\ pool.owned = 1

-----------------------------------------------------------------------------
(* A program that fills one triangle whose vertices lie in the canvas, far  *)
(* outside of it, or at the end of the range of int                         *)

FarXs == {-Far, 0, MaxWidth - 1, MaxWidth - 1 + Far}
FarYs == {-Far, 0, MaxHeight - 1, MaxHeight - 1 + Far, IntMax}

InitFar ==
    /\ strict \in BOOLEAN
    /\ src = NoCanvas
    /\ \E size \in { <<1, 1>>, <<MaxWidth, MaxHeight>> },
          mode \in {"OVERWRITE", "FAST_ALPHA_COMPOSITING"} :
          /\ canvas = Construct(0, size[1], size[2], size[1], mode).cv
          /\ buf = ImageBuffer(size[1] * size[2])
    /\ sub = NoCanvas
    /\ rect = << >>
    /\ Fresh

NextFar ==
    /\ pc = "ready"
    /\ \E x0 \in FarXs, y0 \in FarYs, x1 \in FarXs, y1 \in FarYs,
          x2 \in FarXs, y2 \in FarYs :
           CallFillTriangle(x0, y0, x1, y1, x2, y2, HalfRed)

SpecFar == InitFar /\ [][NextFar]_vars

-----------------------------------------------------------------------------
(* Claims about far vertices, under SpecFar *)

\* C26: on a canvas of width and height at least 1, FillTriangle with any
\* three vertices, far outside the canvas included, returns, has blended only
\* coordinates (x, y) with 0 <= x < width and 0 <= y < height, and does not
\* fail with OutOfBounds in the build that checks.
C26_TriangleClamped ==
    (call.op = "FillTriangle" /\ canvas.Width >= 1 /\ canvas.Height >= 1)
    => /\ status = "ok"
       /\ \A k \in 1 .. Len(log) : IsWithinBounds(canvas, log[k][1], log[k][2])

-----------------------------------------------------------------------------
(* Blend-mode guards of the first Canvas class: the canvas record gains the *)
(* field BlendPixelFn, the function BlendPixel calls.  SetPixel and         *)
(* GetPixel of that class check the bounds and access one pixel, as         *)
(* OverwritePixel and Pixel do; Color::BlendOver has the sums of AlphaBlend *)

GuardModes == {"OVERWRITE", "ALPHA_COMPOSITING"}

SetBlendMode(c, mode) ==
    [c EXCEPT !.mode = mode,
              !.BlendPixelFn = IF mode = "OVERWRITE" THEN "BlendOverwrite"
                               ELSE IF mode = "ALPHA_COMPOSITING" THEN "BlendAlpha"
                               ELSE @]

\* Color::BlendOver; Clamp cuts every channel at 255
BlendOver(color, dst, dz) ==
    LET a == OutAlpha(color, dst)
        Q(i) == Min(ChannelSum(color, dst, i) \div a, 255)
    IN  IF a = 0
        THEN IF dz = "trap" THEN Fault ELSE CombineRGBA(0, 0, 0, 0)
        ELSE CombineRGBA(Q(1), Q(2), Q(3), Min(a, 255))

\* Canvas::BlendPixel(Vec2, Color): check the bounds, then call BlendPixelFn
BlendPixelAt(c, b, x, y, color, dz, ub) ==
    IF ~CheckBounds(c, x, y)
    THEN [status |-> "OutOfBounds", buf |-> b]
    ELSE IF c.BlendPixelFn = "BlendOverwrite"
    THEN OverwritePixel(c, b, x, y, color, ub)
    ELSE IF c.BlendPixelFn = "BlendAlpha"
    THEN LET r == Pixel(c, b, x, y, ub)
             v == BlendOver(color, r.ret, dz)
         IN  IF r.status # "ok"
             THEN [status |-> r.status, buf |-> b]
             ELSE IF v = Fault
                  THEN [status |-> "fault", buf |-> b]
                  ELSE OverwritePixel(c, b, x, y, v, ub)
    ELSE [status |-> "BadFunctionCall", buf |-> b]

\* a guard that reads the mode to restore after it has set its own
BlendModeGuard_SavesNewMode(c, new_mode) ==
    [guard |-> [previous_mode |-> SetBlendMode(c, new_mode).mode, mode |-> new_mode],
     cv |-> SetBlendMode(c, new_mode)]

\* the constructor of BlendModeGuard: the guard (mode is what it was made
\* with, kept for the claims) and the canvas it leaves
BlendModeGuard(c, new_mode) ==
    [guard |-> [previous_mode |-> c.mode, mode |-> new_mode],
     cv |-> SetBlendMode(c, new_mode)]

\* the destructor of BlendModeGuard
DestroyBlendModeGuard(c, guard) == SetBlendMode(c, guard.previous_mode)

\* an exception leaves the scopes of all live guards, the innermost first
RECURSIVE Unwind(_, _)
Unwind(c, live) ==
    IF live = << >>
    THEN c
    ELSE Unwind(DestroyBlendModeGuard(c, live[Len(live)]),
                SubSeq(live, 1, Len(live) - 1))

-----------------------------------------------------------------------------
(* A program that nests guards on one canvas and blends pixels in between *)

InitGuard ==
    /\ strict \in BOOLEAN
    /\ \E mode \in GuardModes :
          /\ canvas = SetBlendMode(
                          Construct(0, MaxWidth, MaxHeight, MaxWidth, mode).cv
                              @@ [BlendPixelFn |-> "nullptr"], mode)
          /\ guards = [live |-> << >>, original |-> mode, calls |-> 0]
    /\ buf \in InitBuffers(MaxWidth * MaxHeight)
    /\ src = NoCanvas
    /\ sub = NoCanvas
    /\ rect = << >>
    /\ pc = "ready"
    /\ call = [op |-> "init"]
    /\ status = "init"
    /\ ret = NoPixel
    /\ log = << >>
    /\ pre = buf
    /\ fg = NoPixel
    /\ bg = NoPixel
    /\ twin = NoTwin
    /\ threads = << >>
    /\ pool = NoPool

\* auto _ = canvas.WithBlendMode(mode)
CallWithBlendMode(mode) ==
    /\ pc = "ready"
    /\ guards.calls < MaxGuardCalls
    /\ Len(guards.live) < MaxGuards
    /\ LET g == BlendModeGuard(canvas, mode)
       IN  /\ canvas' = g.cv
           /\ guards' = [guards EXCEPT !.live = Append(@, g.guard),
                                       !.calls = @ + 1]
    /\ call' = [op |-> "WithBlendMode", who |-> "canvas", args |-> <<mode>>,
                color |-> NoPixel]
    /\ status' = "ok"
    /\ log' = << >>
    /\ pre' = buf
    /\ UNCHANGED <<strict, buf, sub, rect, pc, ret, fg, bg, src, twin, threads, pool>>

\* the innermost guard goes out of scope
CallDestroyGuard ==
    /\ pc = "ready"
    /\ guards.calls < MaxGuardCalls
    /\ guards.live # << >>
    /\ canvas' = DestroyBlendModeGuard(canvas, guards.live[Len(guards.live)])
    /\ guards' = [guards EXCEPT !.live = SubSeq(@, 1, Len(@) - 1),
                                !.calls = @ + 1]
    /\ call' = [op |-> "~BlendModeGuard", who |-> "canvas",
                args |-> <<guards.live[Len(guards.live)].mode>>,
                color |-> NoPixel]
    /\ status' = "ok"
    /\ log' = << >>
    /\ pre' = buf
    /\ UNCHANGED <<strict, buf, sub, rect, pc, ret, fg, bg, src, twin, threads, pool>>

\* canvas.BlendPixel({x, y}, color): an out_of_range it throws is caught
\* outside of every guard's scope; a crash ends the program
CallGuardedBlendPixel(x, y, color) ==
    /\ pc = "ready"
    /\ guards.calls < MaxGuardCalls
    /\ \E dz \in DivZeroFor(canvas), ub \in UBFor :
          LET r == BlendPixelAt(canvas, buf, x, y, color, dz, ub)
              thrown == r.status = "OutOfBounds"
          IN  /\ status' = r.status
              /\ buf' = r.buf
              /\ log' = IF r.status = "ok" THEN << <<x, y>> >> ELSE << >>
              /\ canvas' = IF thrown THEN Unwind(canvas, guards.live) ELSE canvas
              /\ guards' = [guards EXCEPT !.live = IF thrown THEN << >> ELSE @,
                                          !.calls = @ + 1]
              /\ pc' = IF r.status \in {"ok", "OutOfBounds"} THEN "ready" ELSE "done"
    /\ call' = [op |-> "BlendPixelAt", who |-> "canvas", args |-> <<x, y>>,
                color |-> color]
    /\ pre' = buf
    /\ UNCHANGED <<strict, sub, rect, ret, fg, bg, src, twin, threads, pool>>

NextGuard ==
    \/ /\ pc = "ready"
       /\ \E mode \in GuardModes : CallWithBlendMode(mode)
    \/ CallDestroyGuard
    \/ /\ pc = "ready"
       /\ \E p \in { <<0, 0>>, <<MaxWidth - 1, MaxHeight - 1>>, <<-1, 0>> },
             color \in Palette :
              CallGuardedBlendPixel(p[1], p[2], color)

SpecGuard == InitGuard /\ [][NextGuard]_vars

-----------------------------------------------------------------------------
(* Claims about blend-mode guards, under SpecGuard *)

\* the mode of the innermost live guard, or the mode the canvas was built with
ActiveMode ==
    IF guards.live = << >>
    THEN guards.original
    ELSE guards.live[Len(guards.live)].mode

\* C30: with guards created and destroyed innermost first and BlendPixel
\* calls in between, BlendMode() is the mode of the innermost live guard, so
\* after a guard is destroyed it is the mode that was active when the guard
\* was created, and with no guard alive the mode the canvas was built with;
\* a BlendPixel that returns has stored what the blend function of that
\* mode gives.
C30_GuardsRestoreMode ==
    /\ canvas.mode = ActiveMode
    /\ (call.op = "BlendPixelAt" /\ status = "ok"
            /\ IsWithinBounds(canvas, call.args[1], call.args[2]))
       => LET i == Index(canvas, call.args[1], call.args[2])
          IN  IF ActiveMode = "OVERWRITE"
              THEN buf[i] = call.color
              ELSE \E dz \in DivZeroOutcomes :
                      buf[i] = BlendOver(call.color, pre[i], dz)

\* C30 witness: on a canvas built for OVERWRITE, inside a guard for
\* ALPHA_COMPOSITING, an inner guard for OVERWRITE was created, a pixel was
\* blended, and the inner guard was destroyed: the mode is the outer guard's.
C30_Witness ==
    /\ call.op = "~BlendModeGuard"
    /\ call.args = <<"OVERWRITE">>
    /\ guards.original = "OVERWRITE"
    /\ Len(guards.live) = 1
    /\ guards.live[1].mode = "ALPHA_COMPOSITING"
    /\ canvas.mode = "ALPHA_COMPOSITING"
    /\ canvas.BlendPixelFn = "BlendAlpha"
    /\ buf \notin InitBuffers(MaxWidth * MaxHeight)

=============================================================================
